---- MODULE Spec2Model ----
(***************************************************************************)
(* Reference-counted ownership handles of include/control_.hpp:            *)
(* control_block_base / control_block<T>, SharedPtr<T> and WeakPtr<T>.     *)
(*                                                                         *)
(* Every atomic access to a control block (fetch_add, fetch_sub, load,     *)
(* compare_exchange_weak, delete_ptr, delete ctrl) is one step of the      *)
(* thread that performs it; the accesses to the handle's own fields, which *)
(* no other thread touches during the call, belong to the adjacent step.   *)
(* Threads interleave at these steps (sequentially consistent atomics).    *)
(* The memory orders given to the operations on ref_cnt are tracked apart: *)
(* what a thread is guaranteed to observe of the plain writes made to the  *)
(* resource grows only through an acquire of what a release left in        *)
(* ref_cnt.                                                                *)
(*                                                                         *)
(* The single-owner unique_ptr<T, Deleter> and the callable wrapper        *)
(* mystd::function of include/func.hpp are used from one thread; each of   *)
(* their member functions is one step.                                     *)
(***************************************************************************)
EXTENDS Integers, Sequences, FiniteSets, TLC

\* ------------------------------------------------------------- bounds
NThreads == 2
NShared == 4
NWeak == 2
NBlocks == 2
NPtrs == 2
\* unique_ptr objects and the raw pointers they are given
NUnique == 2
NUPtrs == 3
\* mystd::function objects, heap-allocated callables, captured values
NFuncs == 2
NFObjs == 3
NVals == 2
\* plain writes an owner makes to the resource
MaxWrites == 2

\* ---------------------------------------------------------- constants
\* nullptr, as the value of a handle's ptr and ctrl
Null == 0

Threads == 1..NThreads
SharedSlots == 1..NShared
WeakSlots == 1..NWeak
Blocks == 1..NBlocks
Ptrs == 1..NPtrs
UniqueSlots == 1..NUnique
UPtrs == 1..NUPtrs
FuncSlots == 1..NFuncs
FObjs == 1..NFObjs
FVals == 1..NVals

\* a pointer value that is the address of no control block of the program
Wild == NBlocks + 1

\* what a read of a counter in deallocated memory may return: zero, one, more
GarbageVals == {0, 1, 2}

\* the thread on whose stack a handle object lives
Owner(h) == ((h - 1) % NThreads) + 1

VARIABLES
    heap,       \* heap[b]: "unborn", "live" (new control_block) or "freed" (delete ctrl)
    ref_cnt,    \* control_block_base::ref_cnt
    weak_cnt,   \* control_block_base::weak_cnt
    deleter,    \* control_block::deleter: "default" (delete p) or "custom"
    cb_ptr,     \* control_block::ptr
    calls,      \* calls[b]: the deleter invocations <<deleter, argument>> made through b
    frees,      \* frees[b]: how many times delete ctrl ran on b (2 = twice or more)
    sp,         \* the SharedPtr objects: [st, ptr, ctrl]
    wp,         \* the WeakPtr objects: [st, ptr, ctrl]
    th,         \* per thread: the call in progress and its locals
    crashed     \* the process died (wild pointer, corrupted heap)

VARIABLES
    written,    \* how many plain writes the owner has made to the resource
    seen,       \* seen[t]: the writes guaranteed to happen before what thread t does next
    carried     \* carried[b]: the writes released into the release sequence of b's ref_cnt

VARIABLES
    up,         \* the unique_ptr objects: [st, source, deleter]
    udel,       \* udel[p]: the deleters invoked with the raw pointer p, in order
    unew,       \* the raw pointers handed to a unique_ptr so far
    uret        \* the last unique_ptr call, what it returned, the pointers release() gave back

VARIABLES
    fn,         \* the mystd::function objects: [st, buffer, heap_ptr, uses_heap, invoke_fn]
    fobj,       \* fobj[o]: the callable allocated at o (0: none, -1: deleted twice)
    fres        \* the last mystd::function call and its outcome

blockvars == <<heap, ref_cnt, weak_cnt, deleter, cb_ptr, calls, frees>>
ptrvars == <<heap, ref_cnt, weak_cnt, deleter, cb_ptr, calls, frees, sp, wp, th, crashed,
            written, seen, carried>>
uniquevars == <<up, udel, unew, uret>>
funcvars == <<fn, fobj, fres>>
vars == <<heap, ref_cnt, weak_cnt, deleter, cb_ptr, calls, frees, sp, wp, th, crashed,
          written, seen, carried, up, udel, unew, uret, fn, fobj, fres>>

\* a handle object that does not exist (not constructed, or destroyed)
DeadH == [st |-> "dead", ptr |-> Null, ctrl |-> Null]
\* SharedPtr() / WeakPtr(): ptr(nullptr), ctrl(nullptr)
EmptyH == [st |-> "live", ptr |-> Null, ctrl |-> Null]

\* a thread outside any call
IdleT == [pc |-> "idle", op |-> "none", self |-> 0, src |-> 0, dst |-> 0,
          rc |-> Null, exp |-> 0]

Bump(n) == IF n < 2 THEN n + 1 ELSE n
Log(s, c) == IF Len(s) < 2 THEN Append(s, c) ELSE s

\* the value an atomic read of a counter of block c returns, v being the
\* counter's value: a read of deallocated memory returns anything
Observed(c, v) == IF heap[c] = "freed" THEN GarbageVals ELSE {v}

\* what the uninitialized members ptr and ctrl of a handle may hold: zeroes,
\* what a handle that lived at that place left there (the address of a block
\* allocated earlier and its resource), or an address of nothing
StaleHandles ==
    {[st |-> "live", ptr |-> Null, ctrl |-> Null], [st |-> "live", ptr |-> Null, ctrl |-> Wild]}
    \cup {[st |-> "live", ptr |-> cb_ptr[b], ctrl |-> b] : b \in {c \in Blocks : heap[c] # "unborn"}}

\* new control_block<T>(...): the next block of the heap
NewBlock == CHOOSE b \in Blocks : heap[b] = "unborn" /\ \A c \in Blocks : heap[c] = "unborn" => b <= c
\* new T(...): a resource no control block manages yet
FreshPtrs == {p \in Ptrs : \A b \in Blocks : cb_ptr[b] # p}
NewPtr == CHOOSE p \in FreshPtrs : \A q \in FreshPtrs : p <= q

\* ------------------------------------------------------ memory orders
\* std::memory_order_acquire on a read of the ref_cnt of block c by thread t
\* (a load, or the read of a read-modify-write): whatever was released into
\* the counter's release sequence happens before what t does next
memory_order_acquire(t, c) ==
    seen' = IF c \in Blocks /\ carried[c] > seen[t]
            THEN [seen EXCEPT ![t] = carried[c]]
            ELSE seen
\* std::memory_order_release on a read-modify-write of the ref_cnt of block c
\* by thread t: what happened before it is released into the counter's
\* release sequence, which every later read-modify-write continues
memory_order_release(t, c) ==
    carried' = IF c \in Blocks /\ seen[t] > carried[c]
               THEN [carried EXCEPT ![c] = seen[t]]
               ELSE carried

\* ------------------------------------------------- conditions of the code
\* SharedPtr::release: fetch_sub(1) == 1
LastOwner_finalize_always(old) == old >= 1
LastOwner_or_last_but_one(old) == old <= 2
LastOwner(old) == old = 1
\* SharedPtr::release: weak_cnt.load() == 0
NoObserver(w) == w = 0
\* WeakPtr::release: fetch_sub(1) == 1
LastObserver(old) == old = 1
\* WeakPtr::release: ref_cnt.load() == 0
NoOwner_always(r) == TRUE
NoOwner_never(r) == FALSE
NoOwner(r) == r = 0
\* WeakPtr::lock: expected_count == 0
Expired_never(e) == FALSE
Expired(e) == e = 0

\* WeakPtr::lock: compare_exchange_weak(expected_count, expected_count + 1)
\* succeeds when the counter holds expected_count, and stores the new value
CasSucceeds_never(cur, e) == FALSE
CasSucceeds(cur, e) == cur = e
Upgraded_twice(e) == e + 2
Upgraded(e) == e + 1

\* control_block::delete_ptr: deleter(ptr)
DeleterCall_default_delete(b) == <<"default", cb_ptr[b]>>
DeleterCall(b) == <<deleter[b], cb_ptr[b]>>

\* a unique_ptr object that does not exist (not constructed, or destroyed)
DeadU == [st |-> "dead", source |-> Null, deleter |-> "none"]
\* nullptr, as the value of copy_fn_, move_fn_, destroy_fn_ and invoke_fn_
NullFn == "nullptr"
\* buffer_ with no callable constructed in it; a callable in buffer_ is
\* [val, at]: what invoking it returns and the function object in whose
\* buffer_ it was constructed
NoObj == [val |-> 0, at |-> 0]
\* a mystd::function object that does not exist
DeadF == [st |-> "dead", buffer |-> NoObj, heap_ptr |-> Null, uses_heap |-> FALSE, invoke_fn |-> NullFn]
\* function() noexcept = default: no callable constructed in buffer_,
\* heap_ptr_ = nullptr, uses_heap_ = false, the four function pointers null
\* (copy_fn_, move_fn_, destroy_fn_ and invoke_fn_ are always set together:
\* invoke_fn stands for the four)
EmptyF == [st |-> "live", buffer |-> NoObj, heap_ptr |-> Null, uses_heap |-> FALSE, invoke_fn |-> NullFn]

\* no unique_ptr and no mystd::function constructed yet, no write made to a
\* resource since the threads started
InitObjects ==
    /\ written = 0
    /\ seen = [t \in Threads |-> 0]
    /\ carried = [b \in Blocks |-> 0]
    /\ up = [u \in UniqueSlots |-> DeadU]
    /\ udel = [p \in UPtrs |-> <<>>]
    /\ unew = {}
    /\ uret = [op |-> "none", val |-> Null, raw |-> {}]
    /\ fn = [f \in FuncSlots |-> DeadF]
    /\ fobj = [o \in FObjs |-> 0]
    /\ fres = [op |-> "none", self |-> 0, kind |-> "none", val |-> 0]

\* ------------------------------------------------------------- Init
Init ==
    /\ heap = [b \in Blocks |-> "unborn"]
    /\ ref_cnt = [b \in Blocks |-> 0]
    /\ weak_cnt = [b \in Blocks |-> 0]
    /\ deleter = [b \in Blocks |-> "none"]
    /\ cb_ptr = [b \in Blocks |-> Null]
    /\ calls = [b \in Blocks |-> <<>>]
    /\ frees = [b \in Blocks |-> 0]
    /\ sp = [h \in SharedSlots |-> DeadH]
    /\ wp = [w \in WeakSlots |-> DeadH]
    /\ th = [t \in Threads |-> IdleT]
    /\ crashed = FALSE
    /\ InitObjects

\* a thread that may begin a call
Ready(t) == ~crashed /\ th[t].pc = "idle"

\* some thread is inside lock() on the WeakPtr w
Locking(w) == \E u \in Threads : th[u].op = "lock" /\ th[u].self = w

\* the owner of the SharedPtr s is inside a call that writes s: no other
\* thread may read s meanwhile (a data race of the caller)
SharedBusy(s) ==
    \E u \in Threads : /\ th[u].op \in {"dtor", "reset", "move_assign", "copy_assign"}
                       /\ (th[u].self = s \/ th[u].src = s)

\* the same for the WeakPtr w
WeakBusy(w) ==
    \E u \in Threads : /\ th[u].op \in {"wdtor", "wreset", "wassign", "wmove_assign"}
                       /\ (th[u].self = w \/ th[u].src = w)

\* ------------------------------------------------- SharedPtr: construction
\* control_block(T* p) / control_block(T* p, function d): ref_cnt 1, weak_cnt 0
NewControlBlock_no_owner(b, p, d) ==
    /\ heap' = [heap EXCEPT ![b] = "live"]
    /\ ref_cnt' = [ref_cnt EXCEPT ![b] = 0]
    /\ weak_cnt' = [weak_cnt EXCEPT ![b] = 0]
    /\ deleter' = [deleter EXCEPT ![b] = d]
    /\ cb_ptr' = [cb_ptr EXCEPT ![b] = p]
    /\ UNCHANGED <<calls, frees>>
NewControlBlock(b, p, d) ==
    /\ heap' = [heap EXCEPT ![b] = "live"]
    /\ ref_cnt' = [ref_cnt EXCEPT ![b] = 1]
    /\ weak_cnt' = [weak_cnt EXCEPT ![b] = 0]
    /\ deleter' = [deleter EXCEPT ![b] = d]
    /\ cb_ptr' = [cb_ptr EXCEPT ![b] = p]
    /\ UNCHANGED <<calls, frees>>

\* SharedPtr(T* p)
SharedPtr_ctor_ptr(t, h, p) ==
    /\ Ready(t) /\ Owner(h) = t /\ sp[h].st = "dead"
    /\ \E b \in Blocks : heap[b] = "unborn"
    /\ p \in FreshPtrs
    /\ NewControlBlock(NewBlock, p, "default")
    /\ sp' = [sp EXCEPT ![h] = [st |-> "live", ptr |-> p, ctrl |-> NewBlock]]
    /\ UNCHANGED <<wp, th, crashed>>
    /\ UNCHANGED <<uniquevars, funcvars>>
    /\ UNCHANGED <<written, seen, carried>>

\* SharedPtr(T* p, function<void(T*)> d)
SharedPtr_ctor_deleter(t, h, p) ==
    /\ Ready(t) /\ Owner(h) = t /\ sp[h].st = "dead"
    /\ \E b \in Blocks : heap[b] = "unborn"
    /\ p \in FreshPtrs
    /\ NewControlBlock(NewBlock, p, "custom")
    /\ sp' = [sp EXCEPT ![h] = [st |-> "live", ptr |-> p, ctrl |-> NewBlock]]
    /\ UNCHANGED <<wp, th, crashed>>
    /\ UNCHANGED <<uniquevars, funcvars>>
    /\ UNCHANGED <<written, seen, carried>>

\* SharedPtr() noexcept
SharedPtr_ctor_default(t, h) ==
    /\ Ready(t) /\ Owner(h) = t /\ sp[h].st = "dead"
    /\ sp' = [sp EXCEPT ![h] = EmptyH]
    /\ UNCHANGED <<blockvars, wp, th, crashed>>
    /\ UNCHANGED <<uniquevars, funcvars>>
    /\ UNCHANGED <<written, seen, carried>>

\* the object SharedPtr(const SharedPtr& other) builds and its effect on the
\* counters: with other.ctrl null no member is written, and both stay
\* uninitialized. (This is the constructor a const source selects; a
\* non-const lvalue selects the template SharedPtr(SharedPtr<U>&), which
\* differs only in nulling both members first.)
CopyOf_no_increment(other, new) ==
    /\ new = [st |-> "live", ptr |-> other.ptr, ctrl |-> other.ctrl]
    /\ UNCHANGED <<ref_cnt, crashed>>
CopyOf(other, new) ==
    IF other.ctrl = Null
    THEN /\ new \in StaleHandles
         /\ UNCHANGED <<ref_cnt, crashed>>
    ELSE IF other.ctrl = Wild
    THEN /\ new = [st |-> "live", ptr |-> other.ptr, ctrl |-> other.ctrl]
         /\ crashed' = TRUE
         /\ UNCHANGED ref_cnt
    ELSE /\ new = [st |-> "live", ptr |-> other.ptr, ctrl |-> other.ctrl]
         /\ ref_cnt' = IF heap[other.ctrl] = "live"
                       THEN [ref_cnt EXCEPT ![other.ctrl] = @ + 1]
                       ELSE ref_cnt
         /\ UNCHANGED crashed

\* SharedPtr(const SharedPtr& other)
SharedPtr_copy(t, h, s) ==
    /\ Ready(t) /\ Owner(h) = t /\ sp[h].st = "dead" /\ sp[s].st = "live" /\ ~SharedBusy(s)
    /\ \E new \in [st : {"live"}, ptr : {Null} \cup Ptrs, ctrl : {Null, Wild} \cup Blocks] :
        /\ CopyOf(sp[s], new)
        /\ sp' = [sp EXCEPT ![h] = new]
    /\ UNCHANGED <<heap, weak_cnt, deleter, cb_ptr, calls, frees, wp, th>>
    /\ UNCHANGED <<uniquevars, funcvars>>
    /\ memory_order_release(t, sp[s].ctrl)
    /\ UNCHANGED <<written, seen>>

\* SharedPtr(SharedPtr&& other) noexcept
SharedPtr_move(t, h, s) ==
    /\ Ready(t) /\ Owner(h) = t /\ Owner(s) = t
    /\ sp[h].st = "dead" /\ sp[s].st = "live"
    /\ sp' = [sp EXCEPT ![h] = sp[s], ![s] = EmptyH]
    /\ UNCHANGED <<blockvars, wp, th, crashed>>
    /\ UNCHANGED <<uniquevars, funcvars>>
    /\ UNCHANGED <<written, seen, carried>>

\* --------------------------------------------------- SharedPtr::release
\* what the caller of release() does to the handles once release() returned:
\* ~SharedPtr ends the object, operator=(nullptr_t) nulls it, the copy
\* assignment's temp is gone; for the move assignment see SharedPtr_move_assign_end
AfterRelease_reset_keeps(T, spB) ==
    CASE T.op = "dtor" -> [spB EXCEPT ![T.self] = DeadH]
      [] OTHER -> spB
AfterRelease(T, spB) ==
    CASE T.op = "dtor" -> [spB EXCEPT ![T.self] = DeadH]
      [] T.op = "reset" -> [spB EXCEPT ![T.self] = EmptyH]
      [] OTHER -> spB

\* the move assignment has no return statement: see SharedPtr_move_assign_end
Return(t, T, spB) ==
    /\ th' = [th EXCEPT ![t] = IF T.op = "move_assign"
                                THEN [T EXCEPT !.pc = "no_return", !.rc = Null]
                                ELSE IdleT]
    /\ sp' = AfterRelease(T, spB)

\* release() on the control block c, up to and including the fetch_sub
Release(t, T, c, spB) ==
    IF c = Null
    THEN Return(t, T, spB) /\ UNCHANGED <<ref_cnt, crashed>>
    ELSE IF c = Wild
    THEN crashed' = TRUE /\ sp' = spB /\ UNCHANGED <<ref_cnt, th>>
    ELSE \E old \in Observed(c, ref_cnt[c]) :
        /\ ref_cnt' = IF heap[c] = "live" THEN [ref_cnt EXCEPT ![c] = @ - 1] ELSE ref_cnt
        /\ IF LastOwner(old)
           THEN /\ th' = [th EXCEPT ![t] = [T EXCEPT !.pc = "rel_del", !.rc = c]]
                /\ sp' = spB
           ELSE Return(t, T, spB)
        /\ UNCHANGED crashed

\* ~SharedPtr() { release(); }
SharedPtr_dtor(t, h) ==
    /\ Ready(t) /\ Owner(h) = t /\ sp[h].st = "live"
    /\ Release(t, [IdleT EXCEPT !.op = "dtor", !.self = h], sp[h].ctrl, sp)
    /\ UNCHANGED <<heap, weak_cnt, deleter, cb_ptr, calls, frees, wp>>
    /\ UNCHANGED <<uniquevars, funcvars>>
    /\ memory_order_acquire(t, sp[h].ctrl)
    /\ memory_order_release(t, sp[h].ctrl)
    /\ UNCHANGED written

\* operator=(std::nullptr_t)
SharedPtr_reset(t, h) ==
    /\ Ready(t) /\ Owner(h) = t /\ sp[h].st = "live"
    /\ Release(t, [IdleT EXCEPT !.op = "reset", !.self = h], sp[h].ctrl, sp)
    /\ UNCHANGED <<heap, weak_cnt, deleter, cb_ptr, calls, frees, wp>>
    /\ UNCHANGED <<uniquevars, funcvars>>
    /\ memory_order_acquire(t, sp[h].ctrl)
    /\ memory_order_release(t, sp[h].ctrl)
    /\ UNCHANGED written

\* operator=(SharedPtr&& other) noexcept, to the fetch_sub of release(); a
\* self-assignment (this == &other) returns *this and changes nothing
SharedPtr_move_assign(t, h, s) ==
    /\ Ready(t) /\ Owner(h) = t /\ Owner(s) = t
    /\ sp[h].st = "live" /\ sp[s].st = "live"
    /\ IF h = s
       THEN UNCHANGED <<ref_cnt, sp, th, crashed>>
       ELSE Release(t, [IdleT EXCEPT !.op = "move_assign", !.self = h, !.src = s], sp[h].ctrl, sp)
    /\ UNCHANGED <<heap, weak_cnt, deleter, cb_ptr, calls, frees, wp>>
    /\ UNCHANGED <<uniquevars, funcvars>>
    /\ IF h = s
       THEN UNCHANGED <<written, seen, carried>>
       ELSE /\ memory_order_acquire(t, sp[h].ctrl)
            /\ memory_order_release(t, sp[h].ctrl)
            /\ UNCHANGED written

\* the four stores that follow release() in operator=(SharedPtr&& other)
Transferred(spB, h, s) == [spB EXCEPT ![h] = spB[s], ![s] = EmptyH]

\* operator=(SharedPtr&& other) after release(): ctrl = other.ctrl; ptr =
\* other.ptr; other.ctrl = nullptr; other.ptr = nullptr; and then control
\* reaches the closing brace of a function that returns SharedPtr& without a
\* return statement (undefined). The build may perform the stores and let the
\* caller go on with a reference it does not use, may drop the stores, which
\* lie on a path it takes for unreachable, or the process dies
SharedPtr_move_assign_end(t) ==
    /\ ~crashed /\ th[t].pc = "no_return"
    /\ \/ /\ sp' = Transferred(sp, th[t].self, th[t].src)
          /\ th' = [th EXCEPT ![t] = IdleT]
          /\ UNCHANGED crashed
       \/ /\ th' = [th EXCEPT ![t] = IdleT]
          /\ UNCHANGED <<sp, crashed>>
       \/ /\ crashed' = TRUE
          /\ UNCHANGED <<sp, th>>
    /\ UNCHANGED <<blockvars, wp>>
    /\ UNCHANGED <<uniquevars, funcvars>>
    /\ UNCHANGED <<written, seen, carried>>

\* release(): ctrl->delete_ptr()
Release_delete_ptr(t) ==
    /\ ~crashed /\ th[t].pc = "rel_del"
    /\ LET c == th[t].rc IN
        /\ \/ /\ calls' = [calls EXCEPT ![c] = Log(@, DeleterCall(c))]
              /\ th' = [th EXCEPT ![t].pc = "rel_load"]
              /\ UNCHANGED crashed
           \/ /\ heap[c] = "freed"
              /\ crashed' = TRUE
              /\ UNCHANGED <<calls, th>>
    /\ UNCHANGED <<heap, ref_cnt, weak_cnt, deleter, cb_ptr, frees, sp, wp>>
    /\ UNCHANGED <<uniquevars, funcvars>>
    /\ UNCHANGED <<written, seen, carried>>

\* release(): if (ctrl->weak_cnt.load(acquire) == 0)
Release_load_weak(t) ==
    /\ ~crashed /\ th[t].pc = "rel_load"
    /\ \E w \in Observed(th[t].rc, weak_cnt[th[t].rc]) :
        IF NoObserver(w)
        THEN th' = [th EXCEPT ![t].pc = "rel_free"] /\ UNCHANGED sp
        ELSE Return(t, th[t], sp)
    /\ UNCHANGED <<blockvars, wp, crashed>>
    /\ UNCHANGED <<uniquevars, funcvars>>
    /\ UNCHANGED <<written, seen, carried>>

\* release(): delete ctrl
Release_delete_ctrl(t) ==
    /\ ~crashed /\ th[t].pc = "rel_free"
    /\ heap' = [heap EXCEPT ![th[t].rc] = "freed"]
    /\ frees' = [frees EXCEPT ![th[t].rc] = Bump(@)]
    /\ Return(t, th[t], sp)
    /\ UNCHANGED <<ref_cnt, weak_cnt, deleter, cb_ptr, calls, wp, crashed>>
    /\ UNCHANGED <<uniquevars, funcvars>>
    /\ UNCHANGED <<written, seen, carried>>

\* ------------------------------------------------ SharedPtr: assignment
\* operator=(const SharedPtr& other): a self-assignment (this == &other)
\* returns *this and changes nothing; otherwise temp(other); swap(temp); then
\* ~temp() releases what *this held. The fetch_add on other's block is this
\* step, the fetch_sub of ~temp() the next one.
SharedPtr_assign(t, h, s) ==
    /\ Ready(t) /\ Owner(h) = t /\ sp[h].st = "live" /\ sp[s].st = "live" /\ ~SharedBusy(s)
    /\ IF h = s
       THEN UNCHANGED <<ref_cnt, sp, th, crashed>>
       ELSE \E temp \in [st : {"live"}, ptr : {Null} \cup Ptrs, ctrl : {Null, Wild} \cup Blocks] :
            /\ CopyOf(sp[s], temp)
            /\ sp' = [sp EXCEPT ![h] = temp]
            /\ IF crashed' \/ sp[h].ctrl = Null
               THEN th' = th
               ELSE th' = [th EXCEPT ![t] = [IdleT EXCEPT !.pc = "rel_sub", !.op = "copy_assign",
                                                          !.self = h, !.rc = sp[h].ctrl]]
    /\ UNCHANGED <<heap, weak_cnt, deleter, cb_ptr, calls, frees, wp>>
    /\ UNCHANGED <<uniquevars, funcvars>>
    /\ IF h = s
       THEN UNCHANGED <<written, seen, carried>>
       ELSE memory_order_release(t, sp[s].ctrl) /\ UNCHANGED <<written, seen>>

\* ~temp() of the copy assignment: release() of the block *this held before
Release_fetch_sub_skipped(t) ==
    /\ ~crashed /\ th[t].pc = "rel_sub"
    /\ th' = [th EXCEPT ![t] = IdleT]
    /\ UNCHANGED <<blockvars, sp, wp, crashed>>
    /\ UNCHANGED <<uniquevars, funcvars>>
    /\ UNCHANGED <<written, seen, carried>>
Release_fetch_sub(t) ==
    /\ ~crashed /\ th[t].pc = "rel_sub"
    /\ Release(t, th[t], th[t].rc, sp)
    /\ UNCHANGED <<heap, weak_cnt, deleter, cb_ptr, calls, frees, wp>>
    /\ UNCHANGED <<uniquevars, funcvars>>
    /\ memory_order_acquire(t, th[t].rc)
    /\ memory_order_release(t, th[t].rc)
    /\ UNCHANGED written

\* --------------------------------------------------- WeakPtr: construction
\* WeakPtr()
WeakPtr_ctor_default(t, w) ==
    /\ Ready(t) /\ Owner(w) = t /\ wp[w].st = "dead"
    /\ wp' = [wp EXCEPT ![w] = EmptyH]
    /\ UNCHANGED <<blockvars, sp, th, crashed>>
    /\ UNCHANGED <<uniquevars, funcvars>>
    /\ UNCHANGED <<written, seen, carried>>

\* the object WeakPtr(const SharedPtr<T>& sp) builds and its effect on the
\* counters: with sp.ctrl null no member is written, and both stay uninitialized
ObserverOf_no_increment(other, new) ==
    /\ new = [st |-> "live", ptr |-> other.ptr, ctrl |-> other.ctrl]
    /\ UNCHANGED <<weak_cnt, crashed>>
ObserverOf(other, new) ==
    IF other.ctrl = Null
    THEN /\ new \in StaleHandles
         /\ UNCHANGED <<weak_cnt, crashed>>
    ELSE IF other.ctrl = Wild
    THEN /\ new = [st |-> "live", ptr |-> other.ptr, ctrl |-> other.ctrl]
         /\ crashed' = TRUE
         /\ UNCHANGED weak_cnt
    ELSE /\ new = [st |-> "live", ptr |-> other.ptr, ctrl |-> other.ctrl]
         /\ weak_cnt' = IF heap[other.ctrl] = "live"
                        THEN [weak_cnt EXCEPT ![other.ctrl] = @ + 1]
                        ELSE weak_cnt
         /\ UNCHANGED crashed

\* WeakPtr(const SharedPtr<T>& sp)
WeakPtr_from_shared_counts_owner(t, w, s) ==
    /\ Ready(t) /\ Owner(w) = t /\ wp[w].st = "dead" /\ sp[s].st = "live" /\ ~SharedBusy(s)
    /\ sp[s].ctrl \in Blocks
    /\ ref_cnt' = [ref_cnt EXCEPT ![sp[s].ctrl] = @ + 1]
    /\ wp' = [wp EXCEPT ![w] = [st |-> "live", ptr |-> sp[s].ptr, ctrl |-> sp[s].ctrl]]
    /\ UNCHANGED <<heap, weak_cnt, deleter, cb_ptr, calls, frees, sp, th, crashed>>
    /\ UNCHANGED <<uniquevars, funcvars>>
    /\ UNCHANGED <<written, seen, carried>>
WeakPtr_from_shared(t, w, s) ==
    /\ Ready(t) /\ Owner(w) = t /\ wp[w].st = "dead" /\ sp[s].st = "live" /\ ~SharedBusy(s)
    /\ \E new \in [st : {"live"}, ptr : {Null} \cup Ptrs, ctrl : {Null, Wild} \cup Blocks] :
        /\ ObserverOf(sp[s], new)
        /\ wp' = [wp EXCEPT ![w] = new]
    /\ UNCHANGED <<heap, ref_cnt, deleter, cb_ptr, calls, frees, sp, th>>
    /\ UNCHANGED <<uniquevars, funcvars>>
    /\ UNCHANGED <<written, seen, carried>>

\* WeakPtr(const WeakPtr& other) : ctrl(nullptr), ptr(nullptr)
WeakPtr_copy(t, w, s) ==
    /\ Ready(t) /\ Owner(w) = t /\ wp[w].st = "dead" /\ wp[s].st = "live" /\ ~WeakBusy(s)
    /\ IF wp[s].ctrl = Null
       THEN wp' = [wp EXCEPT ![w] = EmptyH] /\ UNCHANGED <<weak_cnt, crashed>>
       ELSE IF wp[s].ctrl = Wild
       THEN crashed' = TRUE /\ UNCHANGED <<wp, weak_cnt>>
       ELSE /\ weak_cnt' = IF heap[wp[s].ctrl] = "live"
                           THEN [weak_cnt EXCEPT ![wp[s].ctrl] = @ + 1]
                           ELSE weak_cnt
            /\ wp' = [wp EXCEPT ![w] = wp[s]]
            /\ UNCHANGED crashed
    /\ UNCHANGED <<heap, ref_cnt, deleter, cb_ptr, calls, frees, sp, th>>
    /\ UNCHANGED <<uniquevars, funcvars>>
    /\ UNCHANGED <<written, seen, carried>>

\* WeakPtr(WeakPtr&& other) : ctrl(nullptr), ptr(nullptr)
WeakPtr_move(t, w, s) ==
    /\ Ready(t) /\ Owner(w) = t
    /\ wp[w].st = "dead" /\ wp[s].st = "live" /\ ~Locking(s) /\ ~WeakBusy(s)
    /\ wp' = IF wp[s].ctrl = Null
             THEN [wp EXCEPT ![w] = EmptyH]
             ELSE [wp EXCEPT ![w] = wp[s], ![s] = EmptyH]
    /\ UNCHANGED <<blockvars, sp, th, crashed>>
    /\ UNCHANGED <<uniquevars, funcvars>>
    /\ UNCHANGED <<written, seen, carried>>

\* ----------------------------------------------------- WeakPtr::release
\* what the caller of release() does to the handles once release() returned
AfterWeakRelease(T, wpB) ==
    CASE T.op = "wdtor" -> [wpB EXCEPT ![T.self] = DeadH]
      [] T.op = "wreset" -> [wpB EXCEPT ![T.self] = EmptyH]
      [] T.op = "wmove_assign" -> [wpB EXCEPT ![T.self] = wpB[T.src], ![T.src] = EmptyH]
      [] OTHER -> wpB

WeakReturn(t, T, wpB) ==
    /\ th' = [th EXCEPT ![t] = IdleT]
    /\ wp' = AfterWeakRelease(T, wpB)

\* release() on the control block c, up to and including the fetch_sub
WeakRelease(t, T, c, wpB) ==
    IF c = Null
    THEN WeakReturn(t, T, wpB) /\ UNCHANGED <<weak_cnt, crashed>>
    ELSE IF c = Wild
    THEN crashed' = TRUE /\ wp' = wpB /\ UNCHANGED <<weak_cnt, th>>
    ELSE \E old \in Observed(c, weak_cnt[c]) :
        /\ weak_cnt' = IF heap[c] = "live" THEN [weak_cnt EXCEPT ![c] = @ - 1] ELSE weak_cnt
        /\ IF LastObserver(old)
           THEN /\ th' = [th EXCEPT ![t] = [T EXCEPT !.pc = "wrel_load", !.rc = c]]
                /\ wp' = wpB
           ELSE WeakReturn(t, T, wpB)
        /\ UNCHANGED crashed

\* ~WeakPtr() { release(); }
WeakPtr_dtor(t, w) ==
    /\ Ready(t) /\ Owner(w) = t /\ wp[w].st = "live" /\ ~Locking(w)
    /\ WeakRelease(t, [IdleT EXCEPT !.op = "wdtor", !.self = w], wp[w].ctrl, wp)
    /\ UNCHANGED <<heap, ref_cnt, deleter, cb_ptr, calls, frees, sp>>
    /\ UNCHANGED <<uniquevars, funcvars>>
    /\ UNCHANGED <<written, seen, carried>>

\* operator=(std::nullptr_t)
WeakPtr_reset(t, w) ==
    /\ Ready(t) /\ Owner(w) = t /\ wp[w].st = "live" /\ ~Locking(w)
    /\ WeakRelease(t, [IdleT EXCEPT !.op = "wreset", !.self = w], wp[w].ctrl, wp)
    /\ UNCHANGED <<heap, ref_cnt, deleter, cb_ptr, calls, frees, sp>>
    /\ UNCHANGED <<uniquevars, funcvars>>
    /\ UNCHANGED <<written, seen, carried>>

\* release(): if (ctrl->ref_cnt.load() == 0)
WeakRelease_load_ref(t) ==
    /\ ~crashed /\ th[t].pc = "wrel_load"
    /\ \E r \in Observed(th[t].rc, ref_cnt[th[t].rc]) :
        IF NoOwner(r)
        THEN th' = [th EXCEPT ![t].pc = "wrel_free"] /\ UNCHANGED wp
        ELSE WeakReturn(t, th[t], wp)
    /\ UNCHANGED <<blockvars, sp, crashed>>
    /\ UNCHANGED <<uniquevars, funcvars>>
    /\ memory_order_acquire(t, th[t].rc)
    /\ UNCHANGED <<written, carried>>

\* release(): delete ctrl
WeakRelease_delete_ctrl(t) ==
    /\ ~crashed /\ th[t].pc = "wrel_free"
    /\ heap' = [heap EXCEPT ![th[t].rc] = "freed"]
    /\ frees' = [frees EXCEPT ![th[t].rc] = Bump(@)]
    /\ WeakReturn(t, th[t], wp)
    /\ UNCHANGED <<ref_cnt, weak_cnt, deleter, cb_ptr, calls, sp, crashed>>
    /\ UNCHANGED <<uniquevars, funcvars>>
    /\ UNCHANGED <<written, seen, carried>>

\* operator=(SharedPtr<T>& other): temp(other); swap(temp); then ~temp()
\* releases what *this observed. The fetch_add is this step, the fetch_sub of
\* ~temp() the next one.
WeakPtr_assign_shared(t, w, s) ==
    /\ Ready(t) /\ Owner(w) = t /\ wp[w].st = "live" /\ sp[s].st = "live" /\ ~Locking(w)
    /\ ~SharedBusy(s)
    /\ \E temp \in [st : {"live"}, ptr : {Null} \cup Ptrs, ctrl : {Null, Wild} \cup Blocks] :
        /\ ObserverOf(sp[s], temp)
        /\ wp' = [wp EXCEPT ![w] = temp]
        /\ IF crashed' \/ wp[w].ctrl = Null
           THEN th' = th
           ELSE th' = [th EXCEPT ![t] = [IdleT EXCEPT !.pc = "wrel_sub", !.op = "wassign",
                                                      !.self = w, !.rc = wp[w].ctrl]]
    /\ UNCHANGED <<heap, ref_cnt, deleter, cb_ptr, calls, frees, sp>>
    /\ UNCHANGED <<uniquevars, funcvars>>
    /\ UNCHANGED <<written, seen, carried>>

\* operator=(WeakPtr<U>& other): temp(other) through WeakPtr(WeakPtr<U>&),
\* which nulls its members first; swap(temp); then ~temp(). A
\* self-assignment returns *this and changes nothing
WeakPtr_assign(t, w, s) ==
    /\ Ready(t) /\ Owner(w) = t /\ wp[w].st = "live" /\ wp[s].st = "live" /\ ~Locking(w)
    /\ ~WeakBusy(s)
    /\ w # s
    /\ IF wp[s].ctrl = Null
       THEN wp' = [wp EXCEPT ![w] = EmptyH] /\ UNCHANGED <<weak_cnt, crashed>>
       ELSE IF wp[s].ctrl = Wild
       THEN crashed' = TRUE /\ UNCHANGED <<wp, weak_cnt>>
       ELSE /\ weak_cnt' = IF heap[wp[s].ctrl] = "live"
                           THEN [weak_cnt EXCEPT ![wp[s].ctrl] = @ + 1]
                           ELSE weak_cnt
            /\ wp' = [wp EXCEPT ![w] = wp[s]]
            /\ UNCHANGED crashed
    /\ IF crashed' \/ wp[w].ctrl = Null
       THEN th' = th
       ELSE th' = [th EXCEPT ![t] = [IdleT EXCEPT !.pc = "wrel_sub", !.op = "wassign",
                                                  !.self = w, !.rc = wp[w].ctrl]]
    /\ UNCHANGED <<heap, ref_cnt, deleter, cb_ptr, calls, frees, sp>>
    /\ UNCHANGED <<uniquevars, funcvars>>
    /\ UNCHANGED <<written, seen, carried>>

\* operator=(WeakPtr<U>&& other): release(); then other's members are taken
\* over and other is nulled (AfterWeakRelease); return *this
WeakPtr_move_assign(t, w, s) ==
    /\ Ready(t) /\ Owner(w) = t
    /\ wp[w].st = "live" /\ wp[s].st = "live" /\ ~Locking(w) /\ ~Locking(s) /\ ~WeakBusy(s)
    /\ w # s
    /\ WeakRelease(t, [IdleT EXCEPT !.op = "wmove_assign", !.self = w, !.src = s], wp[w].ctrl, wp)
    /\ UNCHANGED <<heap, ref_cnt, deleter, cb_ptr, calls, frees, sp>>
    /\ UNCHANGED <<uniquevars, funcvars>>
    /\ UNCHANGED <<written, seen, carried>>

\* ~temp() of an assignment: release() of the block *this observed before
WeakRelease_fetch_sub_skipped(t) ==
    /\ ~crashed /\ th[t].pc = "wrel_sub"
    /\ th' = [th EXCEPT ![t] = IdleT]
    /\ UNCHANGED <<blockvars, sp, wp, crashed>>
    /\ UNCHANGED <<uniquevars, funcvars>>
    /\ UNCHANGED <<written, seen, carried>>
WeakRelease_fetch_sub(t) ==
    /\ ~crashed /\ th[t].pc = "wrel_sub"
    /\ WeakRelease(t, th[t], th[t].rc, wp)
    /\ UNCHANGED <<heap, ref_cnt, deleter, cb_ptr, calls, frees, sp>>
    /\ UNCHANGED <<uniquevars, funcvars>>
    /\ UNCHANGED <<written, seen, carried>>

\* -------------------------------------------------------- WeakPtr::lock
\* lock(), to the first load of ref_cnt: observed_ctrl = ctrl; a null ctrl
\* returns SharedPtr<T>() into the caller's d
WeakPtr_lock(t, w, d) ==
    /\ Ready(t) /\ Owner(d) = t /\ sp[d].st = "dead" /\ wp[w].st = "live"
    /\ ~WeakBusy(w)
    /\ LET c == wp[w].ctrl IN
        IF c = Null
        THEN sp' = [sp EXCEPT ![d] = EmptyH] /\ UNCHANGED <<th, crashed>>
        ELSE IF c = Wild
        THEN crashed' = TRUE /\ UNCHANGED <<sp, th>>
        ELSE \E e \in Observed(c, ref_cnt[c]) :
            /\ th' = [th EXCEPT ![t] = [IdleT EXCEPT !.pc = "lock_loop", !.op = "lock",
                                                       !.self = w, !.dst = d, !.rc = c, !.exp = e]]
            /\ UNCHANGED <<sp, crashed>>
    /\ UNCHANGED <<blockvars, wp>>
    /\ UNCHANGED <<uniquevars, funcvars>>
    /\ memory_order_acquire(t, wp[w].ctrl)
    /\ UNCHANGED <<written, carried>>

\* lock(), one turn of the loop: expected_count 0 returns SharedPtr<T>();
\* otherwise compare_exchange_weak(expected_count, expected_count + 1), which
\* on success returns SharedPtr<T>(ptr, observed_ctrl) and on failure reloads
\* expected_count (a spurious failure leaves everything as it is)
WeakPtr_lock_cas(t) ==
    /\ ~crashed /\ th[t].pc = "lock_loop"
    /\ LET c == th[t].rc
           d == th[t].dst
       IN IF Expired(th[t].exp)
          THEN /\ sp' = [sp EXCEPT ![d] = EmptyH]
               /\ th' = [th EXCEPT ![t] = IdleT]
               /\ UNCHANGED ref_cnt
          ELSE \E cur \in Observed(c, ref_cnt[c]) :
               IF CasSucceeds(cur, th[t].exp)
               THEN /\ ref_cnt' = IF heap[c] = "live"
                                  THEN [ref_cnt EXCEPT ![c] = Upgraded(th[t].exp)]
                                  ELSE ref_cnt
                    /\ sp' = [sp EXCEPT ![d] = [st |-> "live", ptr |-> wp[th[t].self].ptr, ctrl |-> c]]
                    /\ th' = [th EXCEPT ![t] = IdleT]
               ELSE /\ th' = [th EXCEPT ![t].exp = cur]
                    /\ UNCHANGED <<ref_cnt, sp>>
    /\ UNCHANGED <<heap, weak_cnt, deleter, cb_ptr, calls, frees, wp, crashed>>
    /\ UNCHANGED <<uniquevars, funcvars>>
    /\ IF th'[t].pc = "idle" /\ sp'[th[t].dst].ctrl # Null
       THEN memory_order_release(t, th[t].rc) /\ UNCHANGED <<written, seen>>
       ELSE UNCHANGED <<written, seen, carried>>

\* ------------------------------------------------------ specifications
\* The steps inside SharedPtr::release and WeakPtr::release, and the turns of
\* the loop of lock()
Steps ==
    \/ \E t \in Threads : Release_delete_ptr(t)
    \/ \E t \in Threads : Release_load_weak(t)
    \/ \E t \in Threads : Release_delete_ctrl(t)
    \/ \E t \in Threads : WeakRelease_load_ref(t)
    \/ \E t \in Threads : WeakRelease_delete_ctrl(t)
    \/ \E t \in Threads : WeakPtr_lock_cas(t)

\* no control block was allocated yet
NoBlock == \A b \in Blocks : heap[b] = "unborn"

\* Threads that construct, copy, observe, upgrade and drop the handles of one
\* resource, every copy taken from a handle that holds the resource
Next ==
    \/ \E t \in Threads, h \in SharedSlots : NoBlock /\ SharedPtr_ctor_ptr(t, h, NewPtr)
    \/ \E t \in Threads, h, s \in SharedSlots : sp[s].ctrl # Null /\ SharedPtr_copy(t, h, s)
    \/ \E t \in Threads, h \in SharedSlots : SharedPtr_dtor(t, h)
    \/ \E t \in Threads, w \in WeakSlots, s \in SharedSlots : sp[s].ctrl # Null /\ WeakPtr_from_shared(t, w, s)
    \/ \E t \in Threads, w, s \in WeakSlots : WeakPtr_copy(t, w, s)
    \/ \E t \in Threads, w \in WeakSlots : WeakPtr_dtor(t, w)
    \/ \E t \in Threads, w \in WeakSlots, d \in SharedSlots : WeakPtr_lock(t, w, d)
    \/ Steps

Spec == Init /\ [][Next]_vars

\* ------------------------------------------------------------ notions
\* no call is in progress
Quiescent == ~crashed /\ \A t \in Threads : th[t].pc = "idle"

\* the SharedPtr h gave up its reference: its owner is past the fetch_sub of
\* the release() that ends or overwrites it
Releasing(h) ==
    \E u \in Threads : th[u].op \in {"dtor", "reset", "move_assign"} /\ th[u].self = h
WeakReleasing(w) ==
    \E u \in Threads : th[u].op \in {"wdtor", "wreset", "wmove_assign"} /\ th[u].self = w

\* the SharedPtr h is an owner of block b; the temp of an assignment is one
\* until its release()
Holds(h, b) == sp[h].st = "live" /\ sp[h].ctrl = b /\ ~Releasing(h)
TempHolds(t, b) == th[t].pc = "rel_sub" /\ th[t].rc = b
\* the WeakPtr w is an observer of block b
WeakHolds(w, b) == wp[w].st = "live" /\ wp[w].ctrl = b /\ ~WeakReleasing(w)
WeakTempHolds(t, b) == th[t].pc = "wrel_sub" /\ th[t].rc = b

Owned(b) == (\E h \in SharedSlots : Holds(h, b)) \/ (\E t \in Threads : TempHolds(t, b))
WeakObserved(b) == (\E w \in WeakSlots : WeakHolds(w, b)) \/ (\E t \in Threads : WeakTempHolds(t, b))

\* every SharedPtr of block b is gone and every release() of them returned
AllDropped(b) ==
    /\ heap[b] # "unborn"
    /\ Quiescent
    /\ \A h \in SharedSlots : sp[h].ctrl # b

\* ------------------------------------------- copies of one Shared Handle
\* test_concurrent_copies / test_custom_deleter: one SharedPtr built from a raw
\* pointer, with the default or a custom deleter; threads copy it, assign
\* copies over their copies, and let every one of them go
InitCopies ==
    /\ \E d \in {"default", "custom"}, p \in Ptrs :
        /\ deleter = [b \in Blocks |-> IF b = 1 THEN d ELSE "none"]
        /\ cb_ptr = [b \in Blocks |-> IF b = 1 THEN p ELSE Null]
        /\ sp = [h \in SharedSlots |-> IF h = 1 THEN [st |-> "live", ptr |-> p, ctrl |-> 1] ELSE DeadH]
    /\ heap = [b \in Blocks |-> IF b = 1 THEN "live" ELSE "unborn"]
    /\ ref_cnt = [b \in Blocks |-> IF b = 1 THEN 1 ELSE 0]
    /\ weak_cnt = [b \in Blocks |-> 0]
    /\ calls = [b \in Blocks |-> <<>>]
    /\ frees = [b \in Blocks |-> 0]
    /\ wp = [w \in WeakSlots |-> DeadH]
    /\ th = [t \in Threads |-> IdleT]
    /\ crashed = FALSE
    /\ InitObjects

NextCopies ==
    \/ \E t \in Threads, h, s \in SharedSlots : SharedPtr_copy(t, h, s)
    \/ \E t \in Threads, h, s \in SharedSlots : SharedPtr_assign(t, h, s)
    \/ \E t \in Threads, h \in SharedSlots : SharedPtr_dtor(t, h)
    \/ \E t \in Threads : Release_fetch_sub(t)
    \/ \E t \in Threads : Release_delete_ptr(t)
    \/ \E t \in Threads : Release_load_weak(t)
    \/ \E t \in Threads : Release_delete_ctrl(t)

SpecCopies == InitCopies /\ [][NextCopies]_vars

\* C1: whatever the threads and the copies and copy-reassignments of one
\* Shared Handle, the finalizer of its control block is never invoked twice,
\* and once every copy and the original are dropped it was invoked once.
C1_FinalizedExactlyOnce ==
    \A b \in Blocks :
        /\ Len(calls[b]) <= 1
        /\ AllDropped(b) => Len(calls[b]) = 1

\* the original is gone and a copy held by another thread was the last owner:
\* its release() just ran the finalizer
C1_Witness ==
    /\ sp[1].st = "dead"
    /\ Len(calls[1]) = 1
    /\ \E t \in Threads : t # Owner(1) /\ th[t].pc = "rel_load" /\ th[t].op = "dtor"

\* C9: a Shared Handle built from a raw pointer p with a custom finalizer d
\* and copied across threads: every copy caches p, the one invocation made at
\* the final release is d(p), and once all are dropped d was invoked once.
C9_CustomDeleterOnceWithPtr ==
    \A b \in Blocks : deleter[b] = "custom" =>
        /\ \A h \in SharedSlots : sp[h].ctrl = b => sp[h].ptr = cb_ptr[b]
        /\ \A i \in 1..Len(calls[b]) : calls[b][i] = <<"custom", cb_ptr[b]>>
        /\ Len(calls[b]) <= 1
        /\ AllDropped(b) => calls[b] = <<(<<"custom", cb_ptr[b]>>)>>

\* every handle of a resource with a custom finalizer is dropped, the last
\* one by a thread other than the original's, and the finalizer ran
C9_Witness ==
    /\ deleter[1] = "custom"
    /\ AllDropped(1)
    /\ heap[1] = "freed"
    /\ calls[1] = <<(<<"custom", cb_ptr[1]>>)>>

C3_NotFinalizedWhileOwned ==
    \A b \in Blocks : Owned(b) => calls[b] = <<>>

\* C4: a control block is deallocated at most once, also when the release of
\* the last Shared Handle races with the release of the last Weak Handle.
C4_DeallocatedAtMostOnce ==
    \A b \in Blocks : frees[b] <= 1

\* C5: no leak: once every Shared Handle and every Weak Handle of a control
\* block is released and every release has returned, the block is deallocated.
C5_NoLeak ==
    \A b \in Blocks :
        (/\ heap[b] # "unborn"
         /\ Quiescent
         /\ \A h \in SharedSlots : sp[h].ctrl # b
         /\ \A w \in WeakSlots : wp[w].ctrl # b)
        => heap[b] = "freed"

\* every Shared Handle and every Weak Handle is destroyed, every release has
\* returned, the finalizer ran and the block is deallocated
C5_Witness ==
    /\ heap[1] = "freed"
    /\ Quiescent
    /\ \A h \in SharedSlots : sp[h].st = "dead"
    /\ \A w \in WeakSlots : wp[w].st = "dead"
    /\ Len(calls[1]) = 1

\* C6: a control block is never deallocated while a Shared Handle or a Weak
\* Handle references it: when it is deallocated both its counters are 0.
C6_DeallocatedOnlyUnreferenced ==
    [][\A b \in Blocks :
        (heap[b] = "live" /\ heap'[b] = "freed")
            => /\ ref_cnt[b] = 0 /\ weak_cnt[b] = 0
               /\ ~Owned(b) /\ ~WeakObserved(b)]_vars

\* all Shared Handles of block b are dropped, their releases have returned,
\* and a Weak Handle of b is alive
Expiring(b) ==
    /\ heap[b] # "unborn"
    /\ ~Owned(b)
    /\ \A t \in Threads : th[t].pc \in {"rel_del", "rel_load", "rel_free"} => th[t].rc # b
    /\ \E w \in WeakSlots : WeakHolds(w, b)

\* C7: after all Shared Handles of a block are dropped while a Weak Handle of
\* it is alive, the block stays allocated, every lock() on that Weak Handle
\* returns an empty Shared Handle, and only the release of the last Weak
\* Handle deallocates the block.
C7_WeakOutlivesStrong ==
    /\ [](\A b \in Blocks : Expiring(b) => heap[b] = "live")
    /\ [][\A t \in Threads :
            (th[t].op = "lock" /\ th'[t].pc = "idle" /\ Expiring(th[t].rc))
                => sp'[th[t].dst] = EmptyH]_vars
    /\ [][\A b \in Blocks :
            (Expiring(b) /\ heap'[b] = "freed")
                => \E t \in Threads : /\ th[t].pc = "wrel_free" /\ th[t].rc = b
                                      /\ th'[t].pc = "idle"
                                      /\ ~WeakObserved(b)]_vars

\* ------------------------------------------ lock() against the reset
\* test_concurrent_lock: one SharedPtr, your_main_ptr, and one WeakPtr made
\* from it, your_weak, which outlives the test; threads call your_weak.lock()
\* and drop the result, while the owner resets your_main_ptr to null
InitLock ==
    /\ heap = [b \in Blocks |-> IF b = 1 THEN "live" ELSE "unborn"]
    /\ ref_cnt = [b \in Blocks |-> IF b = 1 THEN 1 ELSE 0]
    /\ weak_cnt = [b \in Blocks |-> IF b = 1 THEN 1 ELSE 0]
    /\ deleter = [b \in Blocks |-> IF b = 1 THEN "default" ELSE "none"]
    /\ cb_ptr = [b \in Blocks |-> IF b = 1 THEN 1 ELSE Null]
    /\ calls = [b \in Blocks |-> <<>>]
    /\ frees = [b \in Blocks |-> 0]
    /\ sp = [h \in SharedSlots |-> IF h = 1 THEN [st |-> "live", ptr |-> 1, ctrl |-> 1] ELSE DeadH]
    /\ wp = [w \in WeakSlots |-> IF w = 1 THEN [st |-> "live", ptr |-> 1, ctrl |-> 1] ELSE DeadH]
    /\ th = [t \in Threads |-> IdleT]
    /\ crashed = FALSE
    /\ InitObjects

NextLock ==
    \/ \E t \in Threads, d \in SharedSlots : WeakPtr_lock(t, 1, d)
    \/ \E t \in Threads : WeakPtr_lock_cas(t)
    \/ \E t \in Threads, d \in SharedSlots : d # 1 /\ SharedPtr_dtor(t, d)
    \/ SharedPtr_reset(Owner(1), 1)
    \/ \E t \in Threads : Release_delete_ptr(t)
    \/ \E t \in Threads : Release_load_weak(t)

SpecLock == InitLock /\ [][NextLock]_vars

\* your_main_ptr was reset to null and every handle lock() returned is dropped
LockTestOver ==
    /\ Quiescent
    /\ sp[1] = EmptyH
    /\ \A d \in SharedSlots : d # 1 => sp[d].st = "dead"

\* C8: threads calling lock() on one Weak Handle and dropping each result,
\* while the only original Shared Handle is reset to null: the resource is
\* never destroyed twice, and is destroyed once when the reset and the drops
\* are over, whether the reset or a handle from lock() was the last owner.
C8_LockVsResetDestroysOnce ==
    /\ Len(calls[1]) <= 1
    /\ LockTestOver => calls[1] = <<(<<"default", 1>>)>>

\* a handle returned by lock() outlived the reset and its drop destroyed the
\* resource
C8_Witness ==
    /\ sp[1] = EmptyH
    /\ Len(calls[1]) = 1
    /\ \E t \in Threads : th[t].op = "dtor" /\ th[t].pc = "rel_load" /\ th[t].self # 1

\* --------------------------------------------- one call after another
\* use_count(): the current value of the strong counter, 0 for an empty handle
use_count(h) == IF sp[h].ctrl \in Blocks THEN ref_cnt[sp[h].ctrl] ELSE 0

\* no other thread is inside a call
Alone(t) == \A u \in Threads : u # t => th[u].pc = "idle"

\* a counter that went below zero stays there: the scenarios end at the
\* first such state, which keeps the counters in a finite range
CountersInRange == \A b \in Blocks : ref_cnt[b] >= 0 /\ weak_cnt[b] >= 0

\* thread t may begin the next call of a sequential scenario
MayCall(t) == Alone(t) /\ CountersInRange

\* the handles of the sequential scenarios
SeqShared == SharedSlots \ {NShared}
SeqWeak == WeakSlots \ {NWeak}

\* The calls of SharedPtr and WeakPtr on the handles of one resource, each
\* call started when the one before has returned
NextSeq ==
    \/ \E t \in Threads, h \in SeqShared : MayCall(t) /\ NoBlock /\ SharedPtr_ctor_ptr(t, h, NewPtr)
    \/ \E t \in Threads, h \in SeqShared : MayCall(t) /\ NoBlock /\ SharedPtr_ctor_deleter(t, h, NewPtr)
    \/ \E t \in Threads, h \in SeqShared : MayCall(t) /\ SharedPtr_ctor_default(t, h)
    \/ \E t \in Threads, h, s \in SeqShared : MayCall(t) /\ SharedPtr_copy(t, h, s)
    \/ \E t \in Threads, h, s \in SeqShared : MayCall(t) /\ SharedPtr_move(t, h, s)
    \/ \E t \in Threads, h, s \in SeqShared : MayCall(t) /\ SharedPtr_assign(t, h, s)
    \/ \E t \in Threads, h, s \in SeqShared : MayCall(t) /\ SharedPtr_move_assign(t, h, s)
    \/ \E t \in Threads, h \in SeqShared : MayCall(t) /\ SharedPtr_reset(t, h)
    \/ \E t \in Threads, h \in SeqShared : MayCall(t) /\ SharedPtr_dtor(t, h)
    \/ \E t \in Threads, w \in SeqWeak, s \in SeqShared : MayCall(t) /\ WeakPtr_from_shared(t, w, s)
    \/ \E t \in Threads, w \in SeqWeak : MayCall(t) /\ WeakPtr_dtor(t, w)
    \/ \E t \in Threads, w \in SeqWeak, d \in SeqShared : MayCall(t) /\ WeakPtr_lock(t, w, d)
    \/ \E t \in Threads : SharedPtr_move_assign_end(t)
    \/ \E t \in Threads : Release_fetch_sub(t)
    \/ Steps

SpecSeq == Init /\ [][NextSeq]_vars

\* the live SharedPtr objects whose ctrl is block b
Referencing(b) == {h \in SharedSlots : sp[h].st = "live" /\ sp[h].ctrl = b}

\* C10: with no call in progress, the strong counter of a control block
\* equals the number k of live non-empty Shared Handles that reference it,
\* and use_count() of each of them is k, after any sequence of
\* constructions, copies, moves, assignments, resets, destructions and locks.
C10_UseCountIsOwners ==
    Quiescent =>
        \A b \in Blocks : heap[b] = "live" =>
            /\ ref_cnt[b] = Cardinality(Referencing(b))
            /\ \A h \in Referencing(b) : use_count(h) = Cardinality(Referencing(b))

\* C15: the move constructor and the move assignment of SharedPtr hand the
\* source's ptr and ctrl to the destination and leave the source empty (ptr
\* and ctrl null), without changing a counter of the transferred block; the
\* destruction of the moved-from handle then decrements nothing.
C15_MoveTransfers ==
    [][/\ \A t \in Threads, h, s \in SharedSlots :
            SharedPtr_move(t, h, s) =>
                /\ sp'[h] = sp[s] /\ sp'[s] = EmptyH
                /\ UNCHANGED <<ref_cnt, weak_cnt>>
       /\ \A t \in Threads :
            th[t].pc = "no_return" =>
                /\ ~crashed'
                /\ sp'[th[t].self] = sp[th[t].src] /\ sp'[th[t].src] = EmptyH
                /\ UNCHANGED <<ref_cnt, weak_cnt>>
       /\ \A t \in Threads, h \in SharedSlots :
            (sp[h] = EmptyH /\ SharedPtr_dtor(t, h)) => UNCHANGED <<ref_cnt, weak_cnt>>]_vars

\* ------------------------------------ Weak Handles, one call after another
\* The calls of WeakPtr on the observers of one resource, made from Shared
\* Handles that hold the resource or are empty, each call started when the
\* one before has returned
NextWeakSeq ==
    \/ \E t \in Threads, h \in SeqShared : MayCall(t) /\ NoBlock /\ SharedPtr_ctor_ptr(t, h, NewPtr)
    \/ \E t \in Threads, h \in SeqShared : MayCall(t) /\ SharedPtr_ctor_default(t, h)
    \/ \E t \in Threads, h \in SeqShared : MayCall(t) /\ SharedPtr_dtor(t, h)
    \/ \E t \in Threads, w \in WeakSlots : MayCall(t) /\ WeakPtr_ctor_default(t, w)
    \/ \E t \in Threads, w \in WeakSlots, s \in SeqShared : MayCall(t) /\ WeakPtr_from_shared(t, w, s)
    \/ \E t \in Threads, w, s \in WeakSlots : MayCall(t) /\ WeakPtr_copy(t, w, s)
    \/ \E t \in Threads, w, s \in WeakSlots : MayCall(t) /\ WeakPtr_move(t, w, s)
    \/ \E t \in Threads, w, s \in WeakSlots : MayCall(t) /\ WeakPtr_assign(t, w, s)
    \/ \E t \in Threads, w \in WeakSlots, s \in SeqShared : MayCall(t) /\ WeakPtr_assign_shared(t, w, s)
    \/ \E t \in Threads, w, s \in WeakSlots : MayCall(t) /\ WeakPtr_move_assign(t, w, s)
    \/ \E t \in Threads, w \in WeakSlots : MayCall(t) /\ WeakPtr_reset(t, w)
    \/ \E t \in Threads, w \in WeakSlots : MayCall(t) /\ WeakPtr_dtor(t, w)
    \/ \E t \in Threads : WeakRelease_fetch_sub(t)
    \/ \E t \in Threads : Release_delete_ptr(t)
    \/ \E t \in Threads : Release_load_weak(t)
    \/ \E t \in Threads : Release_delete_ctrl(t)
    \/ \E t \in Threads : WeakRelease_load_ref(t)
    \/ \E t \in Threads : WeakRelease_delete_ctrl(t)

SpecWeakSeq == Init /\ [][NextWeakSeq]_vars

\* the live WeakPtr objects whose ctrl is block b
Observing(b) == {w \in WeakSlots : wp[w].st = "live" /\ wp[w].ctrl = b}

\* C11: with no call in progress, the weak counter of a control block equals
\* the number of live Weak Handles that reference it, after any sequence of
\* constructions from Shared Handles, copies, moves, assignments, resets and
\* destructions of Weak Handles.
C11_WeakCountIsObservers ==
    Quiescent =>
        \A b \in Blocks : heap[b] = "live" => weak_cnt[b] = Cardinality(Observing(b))

\* ------------------------------------------ the calls, each on its own
\* The calls of SharedPtr and WeakPtr whose behaviour is defined, on the
\* handles of up to NBlocks resources, one call after another: every copy is
\* taken from a handle that holds a resource
NextOps ==
    \/ \E t \in Threads, h \in SeqShared : Alone(t) /\ SharedPtr_ctor_ptr(t, h, NewPtr)
    \/ \E t \in Threads, h \in SeqShared : Alone(t) /\ SharedPtr_ctor_deleter(t, h, NewPtr)
    \/ \E t \in Threads, h \in SeqShared : Alone(t) /\ SharedPtr_ctor_default(t, h)
    \/ \E t \in Threads, h, s \in SeqShared : Alone(t) /\ sp[s].ctrl # Null /\ SharedPtr_copy(t, h, s)
    \/ \E t \in Threads, h, s \in SeqShared : Alone(t) /\ SharedPtr_move(t, h, s)
    \/ \E t \in Threads, h, s \in SeqShared : Alone(t) /\ sp[s].ctrl # Null /\ SharedPtr_assign(t, h, s)
    \/ \E t \in Threads, h \in SeqShared : Alone(t) /\ SharedPtr_reset(t, h)
    \/ \E t \in Threads, h \in SeqShared : Alone(t) /\ SharedPtr_dtor(t, h)
    \/ \E t \in Threads, w \in WeakSlots : Alone(t) /\ WeakPtr_ctor_default(t, w)
    \/ \E t \in Threads, w \in WeakSlots, s \in SeqShared : Alone(t) /\ sp[s].ctrl # Null /\ WeakPtr_from_shared(t, w, s)
    \/ \E t \in Threads, w \in WeakSlots : Alone(t) /\ WeakPtr_dtor(t, w)
    \/ \E t \in Threads, w \in WeakSlots, d \in SeqShared : Alone(t) /\ WeakPtr_lock(t, w, d)
    \/ \E t \in Threads, w, s \in WeakSlots : Alone(t) /\ WeakPtr_copy(t, w, s)
    \/ \E t \in Threads, w, s \in WeakSlots : Alone(t) /\ WeakPtr_move(t, w, s)
    \/ \E t \in Threads, w \in WeakSlots : Alone(t) /\ WeakPtr_reset(t, w)
    \/ \E t \in Threads, w, s \in WeakSlots : Alone(t) /\ WeakPtr_assign(t, w, s)
    \/ \E t \in Threads, w \in WeakSlots, s \in SeqShared : Alone(t) /\ sp[s].ctrl # Null /\ WeakPtr_assign_shared(t, w, s)
    \/ \E t \in Threads, w, s \in WeakSlots : Alone(t) /\ WeakPtr_move_assign(t, w, s)
    \/ \E t \in Threads : Release_fetch_sub(t)
    \/ \E t \in Threads : WeakRelease_fetch_sub(t)
    \/ Steps

SpecOps == Init /\ [][NextOps]_vars

\* C12: constructing a SharedPtr from a raw pointer, with or without a
\* custom finalizer, creates a new control block with strong counter 1 and
\* weak counter 0; the new handle references that block and caches the pointer.
C12_CtorMakesBlock ==
    [][\A b \in Blocks :
        (heap[b] = "unborn" /\ heap'[b] = "live") =>
            /\ ref_cnt'[b] = 1 /\ weak_cnt'[b] = 0
            /\ deleter'[b] \in {"default", "custom"}
            /\ cb_ptr'[b] \in Ptrs
            /\ \A c \in Blocks : c # b => cb_ptr[c] # cb_ptr'[b]
            /\ \E h \in SharedSlots :
                /\ sp[h].st = "dead"
                /\ sp'[h] = [st |-> "live", ptr |-> cb_ptr'[b], ctrl |-> b]
                /\ \A g \in SharedSlots : g # h => sp'[g] = sp[g] /\ sp[g].ctrl # b
            /\ \A c \in Blocks : c # b =>
                /\ heap'[c] = heap[c]
                /\ ref_cnt'[c] = ref_cnt[c] /\ weak_cnt'[c] = weak_cnt[c]]_vars

\* a second resource, with a custom finalizer, was just given to a handle
\* while the first is still held
C12_Witness ==
    /\ heap[1] = "live" /\ ref_cnt[1] >= 1
    /\ heap[2] = "live" /\ deleter[2] = "custom"
    /\ ref_cnt[2] = 1 /\ weak_cnt[2] = 0
    /\ Cardinality(Referencing(2)) = 1

\* C13: copy-constructing a SharedPtr from a non-empty source increments the
\* strong counter of the source's block by exactly 1; the new handle holds the
\* source's pointer and block, and the source is unchanged.
C13_CopyIncrementsOnce ==
    [][\A t \in Threads, h, s \in SharedSlots :
        (sp[s].ctrl # Null /\ SharedPtr_copy(t, h, s)) =>
            /\ ref_cnt' = [ref_cnt EXCEPT ![sp[s].ctrl] = @ + 1]
            /\ sp'[h] = sp[s]
            /\ sp'[s] = sp[s]
            /\ UNCHANGED weak_cnt]_vars

\* three handles of the second resource: the original and two copies
C13_Witness ==
    /\ Quiescent
    /\ Cardinality(Referencing(2)) = 3
    /\ ref_cnt[2] = 3

\* the copy assignment h = s of two handles that both hold a block
AssignsOver(t, h, s) ==
    /\ sp[h].ctrl # Null /\ sp[s].ctrl # Null
    /\ SharedPtr_assign(t, h, s)

\* C14 as stated: when a SharedPtr is copy-assigned over a non-empty handle,
\* the strong counter of the block it held is decremented first, before the
\* strong counter of the source's block is incremented.
C14_DecrementFirst ==
    [][\A t \in Threads, h, s \in SharedSlots :
        (AssignsOver(t, h, s) /\ sp[h].ctrl # sp[s].ctrl) =>
            /\ ref_cnt'[sp[h].ctrl] = ref_cnt[sp[h].ctrl] - 1
            /\ ref_cnt'[sp[s].ctrl] = ref_cnt[sp[s].ctrl]]_vars

\* C14 amended: when a SharedPtr is copy-assigned over a non-empty handle,
\* the strong counter of the source's block is incremented first (by the
\* temporary copy), the handle takes the source's pointer and block, and the
\* strong counter of the block it held is decremented after that, by the
\* release of the temporary.
C14_IncrementFirst ==
    [][/\ \A t \in Threads, h, s \in SharedSlots :
            AssignsOver(t, h, s) =>
                /\ ref_cnt' = [ref_cnt EXCEPT ![sp[s].ctrl] = @ + 1]
                /\ sp'[h] = sp[s]
                /\ th'[t].pc = "rel_sub" /\ th'[t].rc = sp[h].ctrl
       /\ \A t \in Threads :
            th[t].pc = "rel_sub" =>
                /\ ref_cnt' = [ref_cnt EXCEPT ![th[t].rc] = @ - 1]
                /\ sp'[th[t].self] = sp[th[t].self]]_vars

\* in the middle of h = s: the source's block, the second, is counted twice
\* and the block h held, the first, is not yet released
C14_Witness ==
    \E t \in Threads :
        /\ th[t].pc = "rel_sub" /\ th[t].rc = 1
        /\ sp[th[t].self].ctrl = 2
        /\ ref_cnt[2] = 2 /\ ref_cnt[1] = 1

\* C16: resetting a SharedPtr (assignment from null) decrements the strong
\* counter of its block exactly once and clears the handle; a second reset,
\* or the destruction of the handle after it, changes no counter.
C16_ResetOnce ==
    [][/\ \A t \in Threads, h \in SharedSlots :
            (sp[h].ctrl # Null /\ SharedPtr_reset(t, h)) =>
                /\ ref_cnt' = [ref_cnt EXCEPT ![sp[h].ctrl] = @ - 1]
                /\ th'[t].pc = "idle" => sp'[h] = EmptyH
       /\ \A t \in Threads :
            (th[t].op = "reset" /\ th[t].pc # "idle") =>
                /\ UNCHANGED ref_cnt
                /\ th'[t].pc = "idle" => sp'[th[t].self] = EmptyH
       /\ \A t \in Threads, h \in SharedSlots :
            (sp[h] = EmptyH /\ (SharedPtr_reset(t, h) \/ SharedPtr_dtor(t, h))) =>
                UNCHANGED <<blockvars, th>>]_vars

\* a reset released the last owner of a block: the finalizer ran and the
\* call is about to return
C16_Witness ==
    \E t \in Threads :
        /\ th[t].op = "reset" /\ th[t].pc = "rel_load"
        /\ ref_cnt[th[t].rc] = 0
        /\ Len(calls[th[t].rc]) = 1

\* thread t's lock() returns in this step with a non-empty SharedPtr
LockSucceeds(t) ==
    /\ th[t].pc = "lock_loop" /\ th'[t].pc = "idle"
    /\ sp'[th[t].dst].ctrl # Null

\* C17: a successful lock() increments the strong counter exactly once and
\* returns a non-empty SharedPtr with the control block and the resource
\* pointer of the WeakPtr; with one owner and no other call in progress, the
\* returned handle and the original both report use_count 2.
C17_LockIncrementsOnce ==
    [][\A t \in Threads :
        LockSucceeds(t) =>
            LET w == th[t].self
                d == th[t].dst
                c == wp[w].ctrl
            IN /\ ref_cnt' = [ref_cnt EXCEPT ![c] = @ + 1]
               /\ UNCHANGED weak_cnt
               /\ sp'[d] = [st |-> "live", ptr |-> wp[w].ptr, ctrl |-> c]
               /\ wp' = wp
               /\ (Alone(t) /\ Cardinality(Referencing(c)) = 1) =>
                    \A h \in SharedSlots :
                        (h = d \/ h \in Referencing(c)) => (use_count(h))' = 2]_vars

\* your_main_ptr and one handle returned by lock() hold the resource, with
\* no call in progress
C17_Witness ==
    /\ Quiescent
    /\ sp[1].ctrl = 1
    /\ Cardinality(Referencing(1)) = 2
    /\ ref_cnt[1] = 2

\* C18: a lock() that fails, because the WeakPtr is empty or because the
\* strong counter was observed at 0, returns an empty SharedPtr and leaves
\* the strong counter, the weak counter and the WeakPtr unchanged; nothing
\* else happens: the block is neither finalized nor deallocated nor does the
\* process die.
C18_FailedLockChangesNothing ==
    [][/\ \A t \in Threads, w \in WeakSlots, d \in SharedSlots :
            (wp[w].ctrl = Null /\ WeakPtr_lock(t, w, d)) =>
                /\ sp'[d] = EmptyH
                /\ UNCHANGED <<blockvars, wp, crashed>>
       /\ \A t \in Threads :
            (th[t].pc = "lock_loop" /\ th[t].exp = 0) =>
                /\ sp'[th[t].dst] = EmptyH
                /\ th'[t] = IdleT
                /\ UNCHANGED <<blockvars, wp, crashed>>]_vars

\* a WeakPtr outlived every owner of its block, and a lock() on it has just
\* read the strong counter as 0
C18_Witness ==
    \E t \in Threads :
        /\ th[t].pc = "lock_loop" /\ th[t].exp = 0
        /\ heap[th[t].rc] = "live"
        /\ Len(calls[th[t].rc]) = 1

\* C20: constructing a WeakPtr from a non-empty SharedPtr increments the
\* weak counter of its block by exactly 1 and leaves the strong counter
\* unchanged; Weak Handles do not keep the resource alive: when the last
\* SharedPtr of a block is released the finalizer has run, however many
\* WeakPtr reference the block.
C20_WeakDoesNotOwn ==
    /\ [][\A t \in Threads, w \in WeakSlots, s \in SharedSlots :
            (sp[s].ctrl # Null /\ WeakPtr_from_shared(t, w, s)) =>
                /\ weak_cnt' = [weak_cnt EXCEPT ![sp[s].ctrl] = @ + 1]
                /\ UNCHANGED <<ref_cnt, sp>>
                /\ wp'[w] = [st |-> "live", ptr |-> sp[s].ptr, ctrl |-> sp[s].ctrl]]_vars
    /\ [](\A b \in Blocks : AllDropped(b) => Len(calls[b]) = 1)

\* every SharedPtr of a block is gone, NWeak WeakPtr still reference it: the
\* finalizer ran and the block is still allocated
C20_Witness ==
    \E b \in Blocks :
        /\ AllDropped(b)
        /\ Cardinality(Observing(b)) = NWeak
        /\ weak_cnt[b] = NWeak
        /\ heap[b] = "live"
        /\ Len(calls[b]) = 1

\* ------------------------------------------------ lock() under fairness
\* test_concurrent_lock with a fair scheduler: a thread inside the loop of
\* lock() gets to execute its next turn
SpecLockFair ==
    /\ InitLock
    /\ [][NextLock]_vars
    /\ \A t \in Threads : WF_vars(WeakPtr_lock_cas(t))

\* C19: lock() never blocks: a thread inside lock() can always take its next
\* turn, whatever the other threads are doing, and under fair scheduling
\* every lock() call returns unless the other threads update the strong
\* counter again and again without end.
C19_LockNeverBlocks ==
    /\ [](\A t \in Threads : th[t].pc = "lock_loop" => ENABLED WeakPtr_lock_cas(t))
    /\ \A t \in Threads :
        \/ []<>(th[t].pc # "lock_loop")
        \* a thread other than t updates a strong counter
        \/ []<><<ref_cnt' # ref_cnt /\ th'[t] = th[t]>>_vars

\* a thread is inside the loop of lock() with an expected_count that another
\* thread has made stale: its compare_exchange fails and it goes round again
C19_Witness ==
    \E t \in Threads :
        /\ th[t].pc = "lock_loop"
        /\ th[t].exp # 0
        /\ th[t].exp # ref_cnt[th[t].rc]

\* ------------------------------------------- releases that race
\* Threads that construct, copy, observe, reset and drop the handles of one
\* resource; as Spec, with the assignments from null and without lock()
NextDrop ==
    \/ \E t \in Threads, h \in SharedSlots : NoBlock /\ SharedPtr_ctor_ptr(t, h, NewPtr)
    \/ \E t \in Threads, h, s \in SharedSlots : sp[s].ctrl # Null /\ SharedPtr_copy(t, h, s)
    \/ \E t \in Threads, h \in SharedSlots : SharedPtr_dtor(t, h)
    \/ \E t \in Threads, h \in SharedSlots : SharedPtr_reset(t, h)
    \/ \E t \in Threads, w \in WeakSlots, s \in SharedSlots : sp[s].ctrl # Null /\ WeakPtr_from_shared(t, w, s)
    \/ \E t \in Threads, w \in WeakSlots : WeakPtr_dtor(t, w)
    \/ \E t \in Threads, w \in WeakSlots : WeakPtr_reset(t, w)
    \/ \E t \in Threads : Release_delete_ptr(t)
    \/ \E t \in Threads : Release_load_weak(t)
    \/ \E t \in Threads : Release_delete_ctrl(t)
    \/ \E t \in Threads : WeakRelease_load_ref(t)
    \/ \E t \in Threads : WeakRelease_delete_ctrl(t)

SpecDrop == Init /\ [][NextDrop]_vars

\* C21: releasing a WeakPtr (destructor or reset) never invokes the
\* finalizer; it deallocates the control block only when its fetch_sub
\* brought the weak counter to 0 and the strong counter is 0, and otherwise
\* leaves the block and the resource untouched.
C21_WeakReleaseNeverFinalizes ==
    [][\A t \in Threads :
        LET \* thread t takes a step of WeakPtr::release in ~WeakPtr or
            \* operator=(nullptr_t)
            WeakReleaseStep ==
                \/ \E w \in WeakSlots : WeakPtr_dtor(t, w) \/ WeakPtr_reset(t, w)
                \/ WeakRelease_load_ref(t)
                \/ WeakRelease_delete_ctrl(t)
        IN WeakReleaseStep =>
            /\ calls' = calls
            /\ UNCHANGED <<ref_cnt, deleter, cb_ptr, sp>>
            /\ \A b \in Blocks :
                heap'[b] # heap[b] =>
                    /\ th[t].pc = "wrel_free" /\ th[t].rc = b
                    /\ ref_cnt[b] = 0]_vars

\* operator=(nullptr_t) on the last WeakPtr, after the last SharedPtr was
\* destroyed and the resource finalized: its release took the weak counter to
\* 0, read a strong counter of 0 and is at delete ctrl
C21_Witness ==
    \E t \in Threads :
        /\ th[t].op = "wreset" /\ th[t].pc = "wrel_free"
        /\ heap[th[t].rc] = "live" /\ Len(calls[th[t].rc]) = 1
        /\ ref_cnt[th[t].rc] = 0 /\ weak_cnt[th[t].rc] = 0
        /\ \A u \in Threads \ {t} : th[u].pc = "idle"

\* C29: the finalizer of a control block is invoked while the block is
\* allocated; the release of the last WeakPtr, running between the strong
\* counter reaching 0 and the finalizer call, never deallocates it first.
C29_FinalizedWhileAllocated ==
    \A t \in Threads : th[t].pc = "rel_del" => heap[th[t].rc] = "live"

\* C30: no handle operation reads or writes a control block after it was
\* deallocated; the weak_cnt.load() of SharedPtr::release after the
\* finalizer never targets a block a concurrent WeakPtr::release deallocated.
C30_NoAccessAfterFree ==
    \A t \in Threads, b \in Blocks :
        LET \* b is the control block that thread t's call is about to read
            \* or write
            Accessing ==
                /\ th[t].rc = b
                /\ \/ th[t].pc \in {"rel_sub", "rel_del", "rel_load", "rel_free",
                                    "wrel_sub", "wrel_load", "wrel_free"}
                   \/ th[t].pc = "lock_loop" /\ ~Expired(th[t].exp)
        IN Accessing => heap[b] # "freed"

\* ------------------------------------------- WeakPtr::operator bool
WeakPtr_bool_live(w) == wp[w].ctrl \in Blocks /\ ref_cnt[wp[w].ctrl] > 0
\* explicit operator bool() const noexcept { return ptr != nullptr; }
WeakPtr_bool(w) == wp[w].ptr # Null

\* C22: the boolean conversion of a WeakPtr depends only on its cached
\* pointer: once every SharedPtr of its block is dropped and the resource
\* finalized, a WeakPtr made while the resource was alive still converts to
\* true, while lock() on it returns an empty SharedPtr.
C22_ExpiredWeakStillTrue ==
    /\ [](\A w \in WeakSlots, b \in Blocks :
            (Expiring(b) /\ WeakHolds(w, b)) => WeakPtr_bool(w))
    /\ [][\A t \in Threads :
            (th[t].pc = "lock_loop" /\ Expiring(th[t].rc) /\ th'[t].pc = "idle") =>
                /\ WeakPtr_bool(th[t].self)
                /\ sp'[th[t].dst] = EmptyH]_vars

\* the resource of an observed block was finalized, the WeakPtr converts to
\* true, and its lock() has read the strong counter as 0
C22_Witness ==
    \E t \in Threads :
        /\ th[t].pc = "lock_loop" /\ Expired(th[t].exp)
        /\ Expiring(th[t].rc) /\ Len(calls[th[t].rc]) = 1
        /\ WeakHolds(th[t].self, th[t].rc)
        /\ WeakPtr_bool(th[t].self)

\* C23: once the strong counter of a control block has reached 0 it never
\* becomes positive again and no copy, assignment or lock() makes a new owner
\* of the block, so the resource is finalized at most once per block.
C23_NoResurrection ==
    /\ [][\A b \in Blocks :
            (heap[b] # "unborn" /\ ref_cnt[b] = 0) =>
                /\ ref_cnt'[b] = 0
                /\ \A h \in SharedSlots :
                    (sp'[h].st = "live" /\ sp'[h].ctrl = b) => sp'[h] = sp[h]]_vars
    /\ [](\A b \in Blocks : Len(calls[b]) <= 1)

\* ------------------------------------------------------- make_shared
\* explicit operator bool() { return ptr != nullptr; }
SharedPtr_bool(h) == sp[h].ptr # Null

\* make_shared<T>(args...): the resource and its control block are made
\* together, strong counter 1 and weak counter 0, and the handle is returned
make_shared(t, h) ==
    /\ Ready(t) /\ Owner(h) = t /\ sp[h].st = "dead"
    /\ \E b \in Blocks : heap[b] = "unborn"
    /\ FreshPtrs # {}
    /\ NewControlBlock(NewBlock, NewPtr, "default")
    /\ sp' = [sp EXCEPT ![h] = [st |-> "live", ptr |-> NewPtr, ctrl |-> NewBlock]]
    /\ UNCHANGED <<wp, th, crashed>>
    /\ UNCHANGED <<uniquevars, funcvars>>
    /\ UNCHANGED <<written, seen, carried>>

\* test_make_shared: handles made by make_shared, copied, moved, assigned
\* nullptr and destroyed, one call after the other
NextFactory ==
    \/ \E t \in Threads, h \in SeqShared : Alone(t) /\ make_shared(t, h)
    \/ \E t \in Threads, h, s \in SeqShared : Alone(t) /\ sp[s].ctrl # Null /\ SharedPtr_copy(t, h, s)
    \/ \E t \in Threads, h, s \in SeqShared : Alone(t) /\ SharedPtr_move(t, h, s)
    \/ \E t \in Threads, h \in SeqShared : Alone(t) /\ SharedPtr_reset(t, h)
    \/ \E t \in Threads, h \in SeqShared : Alone(t) /\ SharedPtr_dtor(t, h)
    \/ \E t \in Threads : Release_delete_ptr(t)
    \/ \E t \in Threads : Release_load_weak(t)
    \/ \E t \in Threads : Release_delete_ctrl(t)

SpecFactory == Init /\ [][NextFactory]_vars

\* C24: the handle returned by make_shared is non-empty and its control
\* block has strong counter 1 and weak counter 0; dropping the handle
\* (assignment from nullptr, or destruction of its last copy) destroys the
\* resource exactly once, and not before.
C24_MakeSharedOwnsOnce ==
    /\ [][\A t \in Threads, h \in SharedSlots :
            make_shared(t, h) =>
                /\ (SharedPtr_bool(h))'
                /\ sp'[h].ctrl \in Blocks
                /\ heap[sp'[h].ctrl] = "unborn" /\ heap'[sp'[h].ctrl] = "live"
                /\ ref_cnt'[sp'[h].ctrl] = 1
                /\ weak_cnt'[sp'[h].ctrl] = 0
                /\ cb_ptr'[sp'[h].ctrl] = sp'[h].ptr
                /\ calls'[sp'[h].ctrl] = <<>>]_vars
    /\ [](\A b \in Blocks : Owned(b) => calls[b] = <<>>)
    /\ [](\A b \in Blocks :
            AllDropped(b) => Len(calls[b]) = 1 /\ calls[b][1][2] = cb_ptr[b])

\* a handle made by make_shared was assigned nullptr when it was the last of
\* its block, and the resource was destroyed once
C24_Witness ==
    \E b \in Blocks, h \in SharedSlots :
        /\ AllDropped(b) /\ Len(calls[b]) = 1
        /\ sp[h] = EmptyH
        /\ \A g \in SharedSlots \ {h} : sp[g].st = "dead"
        /\ \A c \in Blocks \ {b} : heap[c] = "unborn"

\* --------------------------------------------------------- unique_ptr
\* new T(...): a raw pointer no unique_ptr was given yet
NewUPtr == CHOOSE p \in UPtrs \ unew : \A q \in UPtrs \ unew : p <= q

\* unique_ptr(unique_ptr&&), operator=(unique_ptr&&): other.source = nullptr
MovedFrom_keeps(p) == p
MovedFrom(p) == Null

\* release(): source = nullptr
Released_keeps(p) == p
Released(p) == Null

\* reset(): if (source != nullptr) deleter(source);
Reset(h) ==
    IF h.source # Null
    THEN [udel EXCEPT ![h.source] = Append(@, h.deleter)]
    ELSE udel

\* T* get() const noexcept { return source; }
unique_ptr_get(u) == up[u].source
\* explicit operator bool() const noexcept { return source != nullptr; }
unique_ptr_bool(u) == up[u].source # Null

\* unique_ptr() noexcept : source(nullptr), deleter()
unique_ptr_ctor_default(u) ==
    /\ up[u].st = "dead"
    /\ up' = [up EXCEPT ![u] = [st |-> "live", source |-> Null, deleter |-> "default"]]
    /\ uret' = [op |-> "ctor_default", val |-> Null, raw |-> uret.raw]
    /\ UNCHANGED <<udel, unew>>
    /\ UNCHANGED <<ptrvars, funcvars>>

\* explicit unique_ptr(T* p) : source(p), deleter()
unique_ptr_ctor_ptr(u) ==
    /\ up[u].st = "dead" /\ unew # UPtrs
    /\ up' = [up EXCEPT ![u] = [st |-> "live", source |-> NewUPtr, deleter |-> "default"]]
    /\ unew' = unew \cup {NewUPtr}
    /\ uret' = [op |-> "ctor_ptr", val |-> Null, raw |-> uret.raw]
    /\ UNCHANGED udel
    /\ UNCHANGED <<ptrvars, funcvars>>

\* unique_ptr(T* p, const Deleter& d) : source(p), deleter(d)
unique_ptr_ctor_deleter(u) ==
    /\ up[u].st = "dead" /\ unew # UPtrs
    /\ up' = [up EXCEPT ![u] = [st |-> "live", source |-> NewUPtr, deleter |-> "custom"]]
    /\ unew' = unew \cup {NewUPtr}
    /\ uret' = [op |-> "ctor_deleter", val |-> Null, raw |-> uret.raw]
    /\ UNCHANGED udel
    /\ UNCHANGED <<ptrvars, funcvars>>

\* unique_ptr(unique_ptr&& other) noexcept
\*     : source(other.source), deleter(std::move(other.deleter))
\*     { other.source = nullptr; }
unique_ptr_move(u, s) ==
    /\ u # s /\ up[u].st = "dead" /\ up[s].st = "live"
    /\ up' = [up EXCEPT ![u] = [st |-> "live", source |-> up[s].source, deleter |-> up[s].deleter],
                        ![s].source = MovedFrom(up[s].source)]
    /\ uret' = [op |-> "move", val |-> Null, raw |-> uret.raw]
    /\ UNCHANGED <<udel, unew>>
    /\ UNCHANGED <<ptrvars, funcvars>>

\* ~unique_ptr() { reset(); }
unique_ptr_dtor(u) ==
    /\ up[u].st = "live"
    /\ udel' = Reset(up[u])
    /\ up' = [up EXCEPT ![u] = DeadU]
    /\ uret' = [op |-> "dtor", val |-> Null, raw |-> uret.raw]
    /\ UNCHANGED unew
    /\ UNCHANGED <<ptrvars, funcvars>>

\* operator=(unique_ptr&& other): if (this != &other) { reset();
\* source = other.source; deleter = std::move(other.deleter);
\* other.source = nullptr; }
unique_ptr_move_assign(u, s) ==
    /\ up[u].st = "live" /\ up[s].st = "live"
    /\ IF u # s
       THEN /\ udel' = Reset(up[u])
            /\ up' = [up EXCEPT ![u].source = up[s].source,
                                ![u].deleter = up[s].deleter,
                                ![s].source = MovedFrom(up[s].source)]
       ELSE UNCHANGED <<udel, up>>
    /\ uret' = [op |-> "move_assign", val |-> Null, raw |-> uret.raw]
    /\ UNCHANGED unew
    /\ UNCHANGED <<ptrvars, funcvars>>

\* operator=(std::nullptr_t): reset();
unique_ptr_assign_null(u) ==
    /\ up[u].st = "live"
    /\ udel' = Reset(up[u])
    /\ up' = [up EXCEPT ![u].source = Null]
    /\ uret' = [op |-> "assign_null", val |-> Null, raw |-> uret.raw]
    /\ UNCHANGED unew
    /\ UNCHANGED <<ptrvars, funcvars>>

\* T* release(): T* ptr = source; source = nullptr; return ptr;
unique_ptr_release(u) ==
    /\ up[u].st = "live"
    /\ uret' = [op |-> "release", val |-> up[u].source,
                raw |-> uret.raw \cup ({up[u].source} \ {Null})]
    /\ up' = [up EXCEPT ![u].source = Released(up[u].source)]
    /\ UNCHANGED <<udel, unew>>
    /\ UNCHANGED <<ptrvars, funcvars>>

\* void reset(T* p = nullptr): if (source != nullptr) deleter(source);
\* source = p;  -- with nullptr
unique_ptr_reset_null(u) ==
    /\ up[u].st = "live"
    /\ udel' = Reset(up[u])
    /\ up' = [up EXCEPT ![u].source = Null]
    /\ uret' = [op |-> "reset_null", val |-> Null, raw |-> uret.raw]
    /\ UNCHANGED unew
    /\ UNCHANGED <<ptrvars, funcvars>>

\* reset(p) with a new raw pointer
unique_ptr_reset_ptr(u) ==
    /\ up[u].st = "live" /\ unew # UPtrs
    /\ udel' = Reset(up[u])
    /\ up' = [up EXCEPT ![u].source = NewUPtr]
    /\ unew' = unew \cup {NewUPtr}
    /\ uret' = [op |-> "reset_ptr", val |-> Null, raw |-> uret.raw]
    /\ UNCHANGED <<ptrvars, funcvars>>

\* swap(unique_ptr& other): std::swap(source, other.source);
\* std::swap(deleter, other.deleter);
unique_ptr_swap(u, v) ==
    /\ up[u].st = "live" /\ up[v].st = "live"
    /\ up' = [up EXCEPT ![u] = up[v], ![v] = up[u]]
    /\ uret' = [op |-> "swap", val |-> Null, raw |-> uret.raw]
    /\ UNCHANGED <<udel, unew>>
    /\ UNCHANGED <<ptrvars, funcvars>>

\* The unique_ptr tests: any sequence of its member functions
NextUnique ==
    \/ \E u \in UniqueSlots : unique_ptr_ctor_default(u)
    \/ \E u \in UniqueSlots : unique_ptr_ctor_ptr(u)
    \/ \E u \in UniqueSlots : unique_ptr_ctor_deleter(u)
    \/ \E u, s \in UniqueSlots : unique_ptr_move(u, s)
    \/ \E u \in UniqueSlots : unique_ptr_dtor(u)
    \/ \E u, s \in UniqueSlots : unique_ptr_move_assign(u, s)
    \/ \E u \in UniqueSlots : unique_ptr_assign_null(u)
    \/ \E u \in UniqueSlots : unique_ptr_release(u)
    \/ \E u \in UniqueSlots : unique_ptr_reset_null(u)
    \/ \E u \in UniqueSlots : unique_ptr_reset_ptr(u)
    \/ \E u, v \in UniqueSlots : unique_ptr_swap(u, v)

SpecUnique == Init /\ [][NextUnique]_vars

\* the unique_ptr objects that hold the raw pointer p
UHolders(p) == {u \in UniqueSlots : up[u].st = "live" /\ up[u].source = p}

\* C25: over any sequence of constructions from a new pointer, move
\* constructions, move assignments, resets (to nullptr or to a new pointer),
\* swaps, assignments from nullptr and destructions, a raw pointer given to a
\* unique_ptr and not handed back by release() is held by exactly one
\* unique_ptr and not yet deleted, or held by none and passed to the deleter
\* exactly once; a moved-from unique_ptr is empty and its destruction deletes
\* nothing.
C25_DeletedExactlyOnce ==
    /\ [](\A p \in unew \ uret.raw :
            IF UHolders(p) # {}
            THEN Cardinality(UHolders(p)) = 1 /\ udel[p] = <<>>
            ELSE Len(udel[p]) = 1)
    /\ [][\A u, s \in UniqueSlots :
            ((unique_ptr_move(u, s) \/ unique_ptr_move_assign(u, s)) /\ u # s) =>
                /\ ~(unique_ptr_bool(s))'
                /\ (unique_ptr_get(u))' = unique_ptr_get(s)
                /\ \A p \in UPtrs : p # unique_ptr_get(u) => udel'[p] = udel[p]]_vars
    /\ [][\A u \in UniqueSlots :
            (~unique_ptr_bool(u) /\ unique_ptr_dtor(u)) => udel' = udel]_vars

\* a unique_ptr was move-assigned over one that held another pointer: the
\* old pointer was deleted once, the source is empty, the target holds the
\* source's pointer, which is not deleted
C25_Witness ==
    /\ uret.op = "move_assign"
    /\ \E u, s \in UniqueSlots, p, q \in UPtrs :
        /\ u # s /\ p # q
        /\ up[u].st = "live" /\ up[u].source = p /\ udel[p] = <<>>
        /\ up[s].st = "live" /\ up[s].source = Null
        /\ Len(udel[q]) = 1 /\ q \notin uret.raw

\* C26: release() returns the pointer the unique_ptr held and leaves it
\* empty (conversion to bool false, get() null) without invoking the
\* deleter, and the deleter is not invoked with that pointer later either,
\* in particular not when the unique_ptr is destroyed.
C26_ReleaseGivesUp ==
    /\ [][\A u \in UniqueSlots :
            unique_ptr_release(u) =>
                /\ uret'.val = unique_ptr_get(u)
                /\ ~(unique_ptr_bool(u))'
                /\ (unique_ptr_get(u))' = Null
                /\ udel' = udel]_vars
    /\ [](\A p \in uret.raw : udel[p] = <<>> /\ UHolders(p) = {})

\* a unique_ptr released its pointer and was destroyed afterwards
C26_Witness ==
    /\ uret.op = "dtor"
    /\ uret.raw # {}
    /\ \A p \in uret.raw : udel[p] = <<>>
    /\ \A u \in UniqueSlots : up[u].st = "dead"

\* ----------------------------------------------------- mystd::function
\* static constexpr std::size_t SBO_BUFFER_SIZE = 128;
SBO_BUFFER_SIZE == 128

\* The callable types F: a trivially copyable one that fits buffer_, one that
\* fits buffer_ and holds a pointer into itself (a lambda that captures a
\* std::string), and one larger than buffer_
FTypes == {"Plain", "Pinned", "Large"}
\* can_use_sbo = sizeof(F) <= SBO_BUFFER_SIZE && alignof(F) <= SBO_BUFFER_ALIGN
can_use_sbo(F) ==
    (IF F = "Large" THEN 2 * SBO_BUFFER_SIZE ELSE SBO_BUFFER_SIZE) <= SBO_BUFFER_SIZE

\* function tmp(...) of the assignment operators
Tmp == 0

\* the function objects and the heap during a call; crash: the process died
Cur ==
    [fn |-> [i \in {Tmp} \cup FuncSlots |-> IF i = Tmp THEN DeadF ELSE fn[i]],
     fobj |-> fobj,
     crash |-> FALSE]

\* the callable in the buffer_ of f was put there byte by byte and points
\* into the buffer_ it was constructed in
Misplaced(S, f) ==
    /\ S.fn[f].invoke_fn = "Pinned" /\ ~S.fn[f].uses_heap
    /\ S.fn[f].buffer.val # 0 /\ S.fn[f].buffer.at # f

\* *get_ptr<F>(self): what the callable of f is seen to hold; any value when
\* it is read through a dangling pointer
Vals(S, f) ==
    IF S.fn[f].uses_heap
    THEN IF S.fn[f].heap_ptr \in FObjs /\ S.fobj[S.fn[f].heap_ptr] > 0
         THEN {S.fobj[S.fn[f].heap_ptr]}
         ELSE FVals
    ELSE IF Misplaced(S, f) THEN FVals ELSE {S.fn[f].buffer.val}

\* new F(...)
HasRoom(S) == \E o \in FObjs : S.fobj[o] = 0
NewObj(S) == CHOOSE o \in FObjs : S.fobj[o] = 0 /\ \A q \in FObjs : S.fobj[q] = 0 => o <= q
\* delete p
Delete(O, o) == [q \in FObjs |-> IF q # o THEN O[q] ELSE IF O[q] > 0 THEN 0 ELSE -1]

\* the state with the function object f set to h, with the heap object o
\* set to v
SetFn(S, f, h) ==
    [fn |-> [i \in {Tmp} \cup FuncSlots |-> IF i = f THEN h ELSE S.fn[i]],
     fobj |-> S.fobj, crash |-> S.crash]
SetObj(S, o, v) ==
    [fn |-> S.fn,
     fobj |-> [q \in FObjs |-> IF q = o THEN v ELSE S.fobj[q]],
     crash |-> S.crash]

\* new (dst.buffer_) F(v); dst.uses_heap_ = false; the four function
\* pointers of dst set to the functions of F
InBuffer(h, d, F, v) ==
    [st |-> h.st, buffer |-> [val |-> v, at |-> d], heap_ptr |-> h.heap_ptr,
     uses_heap |-> FALSE, invoke_fn |-> F]
\* dst.heap_ptr_ = o; dst.uses_heap_ = true; the four function pointers set
OnHeap(h, F, o) ==
    [st |-> h.st, buffer |-> h.buffer, heap_ptr |-> o,
     uses_heap |-> TRUE, invoke_fn |-> F]
\* get_ptr<F>(self)->~F()
Destroyed(h) ==
    [st |-> h.st, buffer |-> NoObj, heap_ptr |-> h.heap_ptr,
     uses_heap |-> h.uses_heap, invoke_fn |-> h.invoke_fn]

\* function(F f): new (buffer_) CleanF(f), or heap_ptr_ = new CleanF(f);
\* the four function pointers set to the functions of CleanF
Construct(S, d, F, v) ==
    IF can_use_sbo(F)
    THEN SetFn(S, d, InBuffer(S.fn[d], d, F, v))
    ELSE SetObj(SetFn(S, d, OnHeap(S.fn[d], F, NewObj(S))), NewObj(S), v)

\* copy_impl<F>(src, dst)
copy_impl(S, s, d) ==
    LET F == S.fn[s].invoke_fn IN
    { IF ~can_use_sbo(F) \/ S.fn[s].uses_heap
      THEN SetObj(SetFn(S, d, OnHeap(S.fn[d], F, NewObj(S))), NewObj(S), v)
      ELSE SetFn(S, d, InBuffer(S.fn[d], d, F, v)) : v \in Vals(S, s) }
    \cup (IF Misplaced(S, s) THEN {[fn |-> S.fn, fobj |-> S.fobj, crash |-> TRUE]} ELSE {})

\* move_impl: src.uses_heap_ = false; src.heap_ptr_ = nullptr; the four
\* function pointers of src = nullptr
Cleared(h) ==
    [st |-> h.st, buffer |-> h.buffer, heap_ptr |-> Null,
     uses_heap |-> FALSE, invoke_fn |-> NullFn]

\* move_impl<F>(src, dst): a callable on the heap is handed over; one in
\* buffer_ is move-constructed in dst (in its buffer_ if it fits) and
\* destroyed in src
move_impl(S, s, d) ==
    LET h == S.fn[s]
        F == h.invoke_fn
    IN  IF h.uses_heap
        THEN {SetFn(SetFn(S, d, OnHeap(S.fn[d], F, h.heap_ptr)), s, Cleared(h))}
        ELSE { IF can_use_sbo(F)
               THEN SetFn(SetFn(S, d, InBuffer(S.fn[d], d, F, v)), s, Cleared(Destroyed(h)))
               ELSE SetFn(SetObj(SetFn(S, d, OnHeap(S.fn[d], F, NewObj(S))), NewObj(S), v),
                          s, Cleared(Destroyed(h))) : v \in Vals(S, s) }
             \cup (IF Misplaced(S, s) THEN {[fn |-> S.fn, fobj |-> S.fobj, crash |-> TRUE]} ELSE {})

\* destroy_impl<F>(self): delete heap_ptr_, or ~F() on buffer_
destroy_impl(S, f) ==
    IF S.fn[f].uses_heap
    THEN {[fn |-> S.fn, fobj |-> Delete(S.fobj, S.fn[f].heap_ptr), crash |-> S.crash]}
    ELSE {SetFn(S, f, Destroyed(S.fn[f]))}
         \cup (IF Misplaced(S, f) THEN {[fn |-> S.fn, fobj |-> S.fobj, crash |-> TRUE]} ELSE {})

\* function(const function& other): if (other.copy_fn_) other.copy_fn_(other, *this);
CopyCtor(S, d, s) ==
    LET S1 == SetFn(S, d, EmptyF) IN
    IF S.fn[s].invoke_fn # NullFn THEN copy_impl(S1, s, d) ELSE {S1}

\* function(function&& other): if (other.move_fn_) other.move_fn_(other, *this);
MoveCtor(S, d, s) ==
    LET S1 == SetFn(S, d, EmptyF) IN
    IF S.fn[s].invoke_fn # NullFn THEN move_impl(S1, s, d) ELSE {S1}

\* ~function(): if (destroy_fn_) destroy_fn_(*this);
Dtor(S, f) ==
    { IF S1.crash THEN S1 ELSE SetFn(S1, f, DeadF) :
        S1 \in (IF S.fn[f].invoke_fn # NullFn THEN destroy_impl(S, f) ELSE {S}) }

\* swap(function& other): std::swap of buffer_ (byte by byte), heap_ptr_,
\* uses_heap_ and the four function pointers
Swap(S, a, b) == SetFn(SetFn(S, a, S.fn[b]), b, S.fn[a])

\* the outcome of a call becomes the state
Commit(Ss, o, f) ==
    \E S \in Ss :
        IF S.crash
        THEN /\ fres' = [op |-> o, self |-> f, kind |-> "crash", val |-> 0]
             /\ UNCHANGED <<fn, fobj>>
        ELSE /\ fn' = [i \in FuncSlots |-> S.fn[i]]
             /\ fobj' = S.fobj
             /\ fres' = [op |-> o, self |-> f, kind |-> "none", val |-> 0]

\* the process has not died
Alive == fres.kind # "crash"

\* explicit operator bool() const noexcept { return invoke_fn_ != nullptr; }
function_bool(f) == fn[f].invoke_fn # NullFn

\* operator(): if (!invoke_fn_) throw bad_function_call();
Throws_never(h) == FALSE
Throws(h) == h.invoke_fn = NullFn

\* function() noexcept = default;
function_ctor_default(f) ==
    /\ Alive /\ fn[f].st = "dead"
    /\ Commit({SetFn(Cur, f, EmptyF)}, "ctor_default", f)
    /\ UNCHANGED <<ptrvars, uniquevars>>

\* function(std::nullptr_t) noexcept {}
function_ctor_nullptr(f) ==
    /\ Alive /\ fn[f].st = "dead"
    /\ Commit({SetFn(Cur, f, EmptyF)}, "ctor_nullptr", f)
    /\ UNCHANGED <<ptrvars, uniquevars>>

\* template <typename F> function(F f)
function_ctor_F(f, F, v) ==
    /\ Alive /\ fn[f].st = "dead" /\ HasRoom(Cur)
    /\ Commit({Construct(SetFn(Cur, f, EmptyF), f, F, v)}, "ctor_F", f)
    /\ UNCHANGED <<ptrvars, uniquevars>>

\* function(const function& other)
function_copy(f, s) ==
    /\ Alive /\ f # s /\ fn[f].st = "dead" /\ fn[s].st = "live" /\ HasRoom(Cur)
    /\ Commit(CopyCtor(Cur, f, s), "copy", f)
    /\ UNCHANGED <<ptrvars, uniquevars>>

\* function(function&& other) noexcept
function_move(f, s) ==
    /\ Alive /\ f # s /\ fn[f].st = "dead" /\ fn[s].st = "live" /\ HasRoom(Cur)
    /\ Commit(MoveCtor(Cur, f, s), "move", f)
    /\ UNCHANGED <<ptrvars, uniquevars>>

\* ~function()
function_dtor(f) ==
    /\ Alive /\ fn[f].st = "live"
    /\ Commit(Dtor(Cur, f), "dtor", f)
    /\ UNCHANGED <<ptrvars, uniquevars>>

\* operator=(const function& other):
\* if (this != &other) { function tmp(other); swap(tmp); }
function_assign(f, s) ==
    /\ Alive /\ fn[f].st = "live" /\ fn[s].st = "live" /\ HasRoom(Cur)
    /\ Commit(IF f = s
              THEN {Cur}
              ELSE UNION { IF S.crash THEN {S} ELSE Dtor(Swap(S, f, Tmp), Tmp) :
                             S \in CopyCtor(Cur, Tmp, s) },
              "assign", f)
    /\ UNCHANGED <<ptrvars, uniquevars>>

\* operator=(function&& other):
\* if (this != &other) { function tmp(std::move(other)); swap(tmp); }
function_move_assign(f, s) ==
    /\ Alive /\ fn[f].st = "live" /\ fn[s].st = "live" /\ HasRoom(Cur)
    /\ Commit(IF f = s
              THEN {Cur}
              ELSE UNION { IF S.crash THEN {S} ELSE Dtor(Swap(S, f, Tmp), Tmp) :
                             S \in MoveCtor(Cur, Tmp, s) },
              "move_assign", f)
    /\ UNCHANGED <<ptrvars, uniquevars>>

\* operator=(std::nullptr_t): if (destroy_fn_) destroy_fn_(*this); the four
\* function pointers = nullptr; uses_heap_ = false; heap_ptr_ = nullptr;
function_assign_nullptr(f) ==
    /\ Alive /\ fn[f].st = "live"
    /\ Commit({ IF S.crash THEN S ELSE SetFn(S, f, Cleared(S.fn[f])) :
                 S \in (IF fn[f].invoke_fn # NullFn THEN destroy_impl(Cur, f) ELSE {Cur}) },
              "assign_nullptr", f)
    /\ UNCHANGED <<ptrvars, uniquevars>>

\* template <typename F> operator=(F&& f): function tmp(f); swap(tmp);
function_assign_F(f, F, v) ==
    /\ Alive /\ fn[f].st = "live" /\ HasRoom(Cur)
    /\ Commit(Dtor(Swap(Construct(SetFn(Cur, Tmp, EmptyF), Tmp, F, v), f, Tmp), Tmp),
              "assign_F", f)
    /\ UNCHANGED <<ptrvars, uniquevars>>

\* void swap(function& other) noexcept
function_swap(f, g) ==
    /\ Alive /\ fn[f].st = "live" /\ fn[g].st = "live"
    /\ Commit({Swap(Cur, f, g)}, "swap", f)
    /\ UNCHANGED <<ptrvars, uniquevars>>

\* R operator()(Args... args) const
function_call(f) ==
    /\ Alive /\ fn[f].st = "live"
    /\ IF Throws(fn[f])
       THEN fres' = [op |-> "call", self |-> f, kind |-> "bad_function_call", val |-> 0]
       ELSE \/ \E v \in Vals(Cur, f) :
                fres' = [op |-> "call", self |-> f, kind |-> "value", val |-> v]
            \/ /\ Misplaced(Cur, f)
               /\ fres' = [op |-> "call", self |-> f, kind |-> "crash", val |-> 0]
    /\ UNCHANGED <<fn, fobj>>
    /\ UNCHANGED <<ptrvars, uniquevars>>

\* The mystd::function tests: any sequence of its member functions
NextFunc ==
    \/ \E f \in FuncSlots : function_ctor_default(f)
    \/ \E f \in FuncSlots : function_ctor_nullptr(f)
    \/ \E f \in FuncSlots, F \in FTypes, v \in FVals : function_ctor_F(f, F, v)
    \/ \E f, s \in FuncSlots : function_copy(f, s)
    \/ \E f, s \in FuncSlots : function_move(f, s)
    \/ \E f \in FuncSlots : function_dtor(f)
    \/ \E f, s \in FuncSlots : function_assign(f, s)
    \/ \E f, s \in FuncSlots : function_move_assign(f, s)
    \/ \E f \in FuncSlots : function_assign_nullptr(f)
    \/ \E f \in FuncSlots, F \in FTypes, v \in FVals : function_assign_F(f, F, v)
    \/ \E f, g \in FuncSlots : function_swap(f, g)
    \/ \E f \in FuncSlots : function_call(f)

SpecFunc == Init /\ [][NextFunc]_vars

\* a callable object exists in the storage of f
HoldsCallable(f) ==
    IF fn[f].uses_heap
    THEN fn[f].heap_ptr \in FObjs /\ fobj[fn[f].heap_ptr] > 0
    ELSE fn[f].buffer.val # 0

\* C27: invoking an empty mystd::function (default-constructed, constructed
\* or assigned from nullptr, or moved-from) throws bad_function_call and
\* leaves the wrapper unchanged; a non-empty one does not throw it; the
\* conversion to bool is true exactly when the wrapper holds a callable.
C27_EmptyCallThrows ==
    /\ [][\A f \in FuncSlots :
            function_call(f) =>
                /\ fres'.kind = "bad_function_call" <=> ~function_bool(f)
                /\ ~function_bool(f) => fn' = fn /\ fobj' = fobj]_vars
    /\ [][\A f, s \in FuncSlots :
            /\ (function_ctor_default(f) \/ function_ctor_nullptr(f)) =>
                    ~(function_bool(f))'
            /\ (function_assign_nullptr(f) /\ Alive') => ~(function_bool(f))'
            /\ ((function_move(f, s) \/ function_move_assign(f, s)) /\ f # s /\ Alive') =>
                    ~(function_bool(s))']_vars
    /\ [](\A f \in FuncSlots :
            fn[f].st = "live" => (function_bool(f) <=> HoldsCallable(f)))

\* an empty wrapper was invoked and threw, next to a wrapper that holds a
\* callable
C27_Witness ==
    /\ fres.op = "call" /\ fres.kind = "bad_function_call"
    /\ fn[fres.self].st = "live" /\ ~function_bool(fres.self)
    /\ \E g \in FuncSlots : fn[g].st = "live" /\ function_bool(g)

\* C28: move-constructing or move-assigning a mystd::function leaves the
\* source empty and the destination holding the callable the source held,
\* for callables in the inline buffer and on the heap; copying leaves the
\* source non-empty and both wrappers invoke to the same result.
C28_MoveAndCopyTransfer ==
    [][\A f, s \in FuncSlots :
        (f # s /\ function_bool(s) /\ ~Misplaced(Cur, s)) =>
            /\ (function_move(f, s) \/ function_move_assign(f, s)) =>
                /\ Alive'
                /\ ~(function_bool(s))'
                /\ (function_bool(f))'
                /\ (Vals(Cur, f))' = Vals(Cur, s)
            /\ (function_copy(f, s) \/ function_assign(f, s)) =>
                /\ Alive'
                /\ (function_bool(s))'
                /\ (function_bool(f))'
                /\ (Vals(Cur, f))' = Vals(Cur, s)
                /\ (Vals(Cur, s))' = Vals(Cur, s)]_vars

\* ------------------------------------------------ lock() and the owners
\* C31: lock() never fails spuriously. It returns an empty Shared Handle only
\* after one of its reads of the strong counter (the first load, or the reload
\* a failed compare-and-swap leaves in expected_count) returned 0, a read
\* returns 0 only when the counter is 0, and then no Shared Handle of the
\* block is live: with an owner alive during the whole call no read returns 0
\* and lock() does not return empty, whatever copies, releases and CAS
\* failures occur.
C31_LockFailsOnlyOnZero ==
    /\ [][\A t \in Threads :
            (th'[t].pc = "lock_loop" /\ th'[t] # th[t] /\ th'[t].exp = 0)
                => (ref_cnt[th'[t].rc] = 0 /\ ~Owned(th'[t].rc))]_vars
    /\ [][\A t \in Threads :
            (th[t].op = "lock" /\ th'[t].pc = "idle" /\ sp'[th[t].dst].ctrl = Null)
                => th[t].exp = 0]_vars

\* C32: in every reachable state of every interleaving of the operations on
\* handles, the strong counter and the weak counter of every allocated
\* control block are greater than or equal to 0.
C32_CountersNeverNegative ==
    \A b \in Blocks : heap[b] = "live" => (ref_cnt[b] >= 0 /\ weak_cnt[b] >= 0)

\* ------------------------------------------------ the move assignment
\* C33: move-assigning a Shared Handle onto a non-empty target decrements the
\* strong counter of the block the target held exactly once, finalizing the
\* resource if the target was its last owner, and completes leaving every
\* other counter, those of the source's block among them, as it was; a self
\* move-assignment changes no counter and no handle.
C33_MoveAssignReleasesOnce ==
    [][/\ \A t \in Threads, h, s \in SharedSlots :
            (/\ SharedPtr_move_assign(t, h, s) /\ h # s
             /\ sp[h].ctrl \in Blocks /\ heap[sp[h].ctrl] = "live") =>
                /\ ref_cnt' = [ref_cnt EXCEPT ![sp[h].ctrl] = @ - 1]
                /\ weak_cnt' = weak_cnt
                /\ ref_cnt[sp[h].ctrl] = 1 => (th'[t].pc = "rel_del" /\ th'[t].rc = sp[h].ctrl)
                /\ ref_cnt[sp[h].ctrl] # 1 => th'[t].pc = "no_return"
       /\ \A t \in Threads :
            (th[t].pc = "no_return" /\ sp[th[t].self].ctrl # Null)
                => (~crashed' /\ UNCHANGED <<ref_cnt, weak_cnt>>)
       /\ \A t \in Threads, h \in SharedSlots :
            SharedPtr_move_assign(t, h, h) => UNCHANGED <<ref_cnt, weak_cnt, sp, wp>>]_vars

\* ------------------------------------------ assignment of Weak Handles
\* C34: assigning to a Weak Handle that observes a block, from another Weak
\* Handle by copy or from a Shared Handle, increments the weak counter of the
\* new block once and then decrements the weak counter of the block observed
\* before once; the move assignment decrements the weak counter of the block
\* observed before once, changes no other counter, hands the source's block
\* to the target and leaves the source empty.
C34_WeakAssignCounts ==
    [][/\ \A t \in Threads, w, s \in WeakSlots :
            (/\ WeakPtr_assign(t, w, s)
             /\ wp[w].ctrl \in Blocks /\ wp[s].ctrl \in Blocks) =>
                /\ weak_cnt' = [weak_cnt EXCEPT ![wp[s].ctrl] = @ + 1]
                /\ ref_cnt' = ref_cnt
                /\ wp'[w] = wp[s]
                /\ th'[t].pc = "wrel_sub" /\ th'[t].rc = wp[w].ctrl
       /\ \A t \in Threads, w \in WeakSlots, s \in SharedSlots :
            (/\ WeakPtr_assign_shared(t, w, s)
             /\ wp[w].ctrl \in Blocks /\ sp[s].ctrl \in Blocks) =>
                /\ weak_cnt' = [weak_cnt EXCEPT ![sp[s].ctrl] = @ + 1]
                /\ ref_cnt' = ref_cnt
                /\ wp'[w].ctrl = sp[s].ctrl
                /\ th'[t].pc = "wrel_sub" /\ th'[t].rc = wp[w].ctrl
       /\ \A t \in Threads :
            th[t].pc = "wrel_sub" =>
                /\ weak_cnt' = [weak_cnt EXCEPT ![th[t].rc] = @ - 1]
                /\ ref_cnt' = ref_cnt
                /\ th'[t].pc # "wrel_sub"
       /\ \A t \in Threads, w, s \in WeakSlots :
            (WeakPtr_move_assign(t, w, s) /\ wp[w].ctrl \in Blocks) =>
                /\ weak_cnt' = [weak_cnt EXCEPT ![wp[w].ctrl] = @ - 1]
                /\ ref_cnt' = ref_cnt
                /\ th'[t].pc = "idle" => (wp'[w] = wp[s] /\ wp'[s] = EmptyH)
       /\ \A t \in Threads :
            (th[t].op = "wmove_assign" /\ th'[t].pc = "idle") =>
                /\ wp'[th[t].self] = wp[th[t].src] /\ wp'[th[t].src] = EmptyH
                /\ UNCHANGED <<weak_cnt, ref_cnt>>]_vars

\* a Weak Handle that observed one block was assigned an observer of another
\* block: the new block counts one observer more, and the temporary that took
\* over the old block is about to release it
C34_Witness ==
    \E t \in Threads, w \in WeakSlots :
        /\ th[t].pc = "wrel_sub" /\ th[t].op = "wassign" /\ th[t].self = w
        /\ wp[w].ctrl \in Blocks /\ th[t].rc \in Blocks
        /\ wp[w].ctrl # th[t].rc
        /\ weak_cnt[wp[w].ctrl] = 2
        /\ weak_cnt[th[t].rc] = 1

\* ------------------------------------------- copies of empty handles
\* C35: copy-constructing a Shared Handle from an empty Shared Handle yields
\* an empty handle, ptr and ctrl both null, and changes no counter; the
\* destruction of such a copy decrements nothing.
C35_CopyOfEmptyIsEmpty ==
    [][/\ \A t \in Threads, h, s \in SharedSlots :
            (SharedPtr_copy(t, h, s) /\ sp[s].ctrl = Null) =>
                /\ sp'[h] = EmptyH
                /\ UNCHANGED <<ref_cnt, weak_cnt>>
       /\ \A t \in Threads, h \in SharedSlots :
            (SharedPtr_dtor(t, h) /\ sp[h] = EmptyH) =>
                /\ UNCHANGED <<ref_cnt, weak_cnt>>
                /\ th'[t].pc = "idle"]_vars

\* C36: constructing a Weak Handle from an empty Shared Handle, or assigning
\* an empty Shared Handle to a Weak Handle, yields an empty Weak Handle, ptr
\* and ctrl both null, and increments no counter; lock() on such a Weak
\* Handle returns an empty Shared Handle and its destruction decrements
\* nothing.
C36_WeakOfEmptyIsEmpty ==
    [][/\ \A t \in Threads, w \in WeakSlots, s \in SharedSlots :
            (WeakPtr_from_shared(t, w, s) /\ sp[s].ctrl = Null) =>
                /\ wp'[w] = EmptyH
                /\ UNCHANGED <<ref_cnt, weak_cnt>>
       /\ \A t \in Threads, w \in WeakSlots, s \in SharedSlots :
            (WeakPtr_assign_shared(t, w, s) /\ sp[s].ctrl = Null) =>
                /\ wp'[w] = EmptyH
                /\ UNCHANGED <<ref_cnt, weak_cnt>>
       /\ \A t \in Threads, w \in WeakSlots, d \in SharedSlots :
            (WeakPtr_lock(t, w, d) /\ wp[w] = EmptyH) =>
                /\ sp'[d] = EmptyH
                /\ UNCHANGED <<ref_cnt, weak_cnt>>
       /\ \A t \in Threads, w \in WeakSlots :
            (WeakPtr_dtor(t, w) /\ wp[w] = EmptyH) =>
                /\ UNCHANGED <<ref_cnt, weak_cnt>>
                /\ th'[t].pc = "idle"]_vars

\* ------------------------------------------------ which counter is whose
\* C37: no operation of a Shared Handle (construction, copy, move,
\* assignment, reset, destruction, and the steps of its release) modifies the
\* weak counter of a block, and no operation of a Weak Handle other than
\* lock() (construction, copy, move, assignment, reset, destruction, and the
\* steps of its release) modifies the strong counter of a block.
C37_CountersKeptApart ==
    [][/\ \A t \in Threads :
            (\/ \E h \in SharedSlots, p \in Ptrs : SharedPtr_ctor_ptr(t, h, p)
             \/ \E h \in SharedSlots, p \in Ptrs : SharedPtr_ctor_deleter(t, h, p)
             \/ \E h \in SharedSlots : SharedPtr_ctor_default(t, h)
             \/ \E h, s \in SharedSlots : SharedPtr_copy(t, h, s)
             \/ \E h, s \in SharedSlots : SharedPtr_move(t, h, s)
             \/ \E h, s \in SharedSlots : SharedPtr_assign(t, h, s)
             \/ \E h \in SharedSlots : SharedPtr_reset(t, h)
             \/ \E h \in SharedSlots : SharedPtr_dtor(t, h)
             \/ Release_fetch_sub(t)
             \/ Release_delete_ptr(t)
             \/ Release_load_weak(t)
             \/ Release_delete_ctrl(t))
                => weak_cnt' = weak_cnt
       /\ \A t \in Threads :
            (\/ \E w \in WeakSlots : WeakPtr_ctor_default(t, w)
             \/ \E w \in WeakSlots, s \in SharedSlots : WeakPtr_from_shared(t, w, s)
             \/ \E w, s \in WeakSlots : WeakPtr_copy(t, w, s)
             \/ \E w, s \in WeakSlots : WeakPtr_move(t, w, s)
             \/ \E w, s \in WeakSlots : WeakPtr_assign(t, w, s)
             \/ \E w \in WeakSlots, s \in SharedSlots : WeakPtr_assign_shared(t, w, s)
             \/ \E w, s \in WeakSlots : WeakPtr_move_assign(t, w, s)
             \/ \E w \in WeakSlots : WeakPtr_reset(t, w)
             \/ \E w \in WeakSlots : WeakPtr_dtor(t, w)
             \/ WeakRelease_fetch_sub(t)
             \/ WeakRelease_load_ref(t)
             \/ WeakRelease_delete_ctrl(t))
                => ref_cnt' = ref_cnt]_vars

\* a block with two owners and two observers, made by copies of both kinds,
\* while the last Shared Handle of another block is inside its release
C37_Witness ==
    \E t \in Threads, b, c \in Blocks :
        /\ b # c
        /\ heap[b] = "live" /\ ref_cnt[b] = 2 /\ weak_cnt[b] = 2
        /\ th[t].pc = "rel_load" /\ th[t].rc = c

\* ------------------------------------- assignment within one block
\* C38: copy-assigning a Shared Handle to itself changes nothing, and
\* copy-assigning between two handles that reference the same control block
\* leaves the strong counter at its previous value, one increment by the
\* temporary followed by one decrement at its release, and never finalizes
\* the resource: the temporary is never the last owner.
C38_SameBlockAssignKeepsCount ==
    /\ [][/\ \A t \in Threads, h \in SharedSlots :
                SharedPtr_assign(t, h, h) => UNCHANGED <<ref_cnt, calls, sp, th>>
          /\ \A t \in Threads, h, s \in SharedSlots :
                (/\ SharedPtr_assign(t, h, s) /\ h # s
                 /\ sp[h].ctrl \in Blocks /\ sp[s].ctrl = sp[h].ctrl) =>
                    /\ ref_cnt' = [ref_cnt EXCEPT ![sp[h].ctrl] = @ + 1]
                    /\ sp'[h] = sp[h]
                    /\ calls' = calls
                    /\ th'[t].pc = "rel_sub" /\ th'[t].rc = sp[h].ctrl
          /\ \A t \in Threads :
                (/\ th[t].pc = "rel_sub" /\ th'[t] # th[t]
                 /\ sp[th[t].self].ctrl = th[t].rc) =>
                    /\ ref_cnt' = [ref_cnt EXCEPT ![th[t].rc] = @ - 1]
                    /\ calls' = calls
                    /\ th'[t].pc = "idle"]_vars
    /\ [](\A t \in Threads :
            (th[t].pc = "rel_sub" /\ sp[th[t].self].ctrl = th[t].rc)
                => (ref_cnt[th[t].rc] >= 2 /\ calls[th[t].rc] = <<>>))

\* a thread assigned a copy of the resource's handle over its own copy and is
\* about to release the temporary, while other copies exist: three owners
\* and the temporary
C38_Witness ==
    \E t \in Threads :
        /\ th[t].pc = "rel_sub" /\ th[t].op = "copy_assign"
        /\ sp[th[t].self].ctrl = th[t].rc
        /\ ref_cnt[th[t].rc] = 4
        /\ Cardinality(Referencing(th[t].rc)) = 3

\* ------------------------------------ what lock() synchronizes with
\* T& operator*() / T* operator->(): the owner writes the resource through
\* its handle, a plain write that happens before what the owner does next
SharedPtr_deref_write(t, h) ==
    /\ Ready(t) /\ Owner(h) = t /\ sp[h].st = "live"
    /\ sp[h].ctrl \in Blocks /\ heap[sp[h].ctrl] = "live"
    /\ written < MaxWrites
    /\ written' = written + 1
    /\ seen' = [seen EXCEPT ![t] = written + 1]
    /\ UNCHANGED <<blockvars, sp, wp, th, crashed, carried>>
    /\ UNCHANGED <<uniquevars, funcvars>>

\* test_concurrent_lock with an owner that stays: your_main_ptr keeps the
\* resource, its owner writes the resource, threads copy your_main_ptr and
\* drop the copies, and threads call your_weak.lock() and drop the results
NextOrder ==
    \/ SharedPtr_deref_write(Owner(1), 1)
    \/ \E t \in Threads, h \in SharedSlots : SharedPtr_copy(t, h, 1)
    \/ \E t \in Threads, d \in SharedSlots : d # 1 /\ SharedPtr_dtor(t, d)
    \/ \E t \in Threads, d \in SharedSlots : WeakPtr_lock(t, 1, d)
    \/ \E t \in Threads : WeakPtr_lock_cas(t)

SpecOrder == InitLock /\ [][NextOrder]_vars

\* C39: the compare-and-swap by which lock() increments the strong counter
\* acquires on success: when lock() returns a non-empty handle, every write
\* to the resource that the owners released into the counter the
\* compare-and-swap read happens before what the upgrading thread does next.
C39_LockAcquiresOnSuccess ==
    [][\A t \in Threads :
        (/\ th[t].pc = "lock_loop" /\ th'[t].pc = "idle"
         /\ sp'[th[t].dst].ctrl # Null)
            => seen'[t] >= carried[th[t].rc]]_vars

====
